---- MODULE Spec2Model ----
(***************************************************************************)
(* The tool-orchestration core of coach-claude:                            *)
(*   - the server registry   (src/mcp_client/server/server_manager.py)     *)
(*   - the query orchestrator and its cache-marker allocation              *)
(*                           (src/mcp_client/processing/query_processor.py)*)
(* The registry's maps are modelled as Python dicts: a function whose      *)
(* DOMAIN is the key set, or (for the insertion-ordered session map) a     *)
(* sequence of entries.  Everything the subprocesses, the operating system *)
(* and the model API decide is an input chosen with \E.                    *)
(***************************************************************************)
EXTENDS Integers, Sequences, FiniteSets, TLC

VARIABLES
    servers,             \* self.servers: insertion-ordered dict name -> ServerInfo
    connected_servers,   \* self.connected_servers: set of names
    server_processes,    \* self.server_processes: dict name -> process ("running"/"exited")
    last_health_checks,  \* self.last_health_checks: dict name -> age of the timestamp
    health_check_task,   \* self.health_check_task is not None
    op,                  \* the last registry call: [name, arg, ret]
    log,                 \* what that call did, in order (probes, sleeps, terminate, kill)
    ct,                  \* the call_tool invocation in progress (its locals and position)
    qp,                  \* the process_query invocation in progress (its locals and position)
    cache,               \* the payload of a query: caller context, tools, cache markers
    pr,                  \* a process_response call: the response and what is returned
    cfg,                 \* the configuration: the file, and what ConfigManager loaded
    cs,                  \* an apply_strategies call: its arguments and what it returns
    scheduled            \* cleanup_server tasks created and not yet run: name -> whether
                         \* the server was connected again since the task was created

regVars == <<servers, connected_servers, server_processes, last_health_checks,
             health_check_task, op, log, ct, scheduled>>
vars == <<servers, connected_servers, server_processes, last_health_checks,
          health_check_task, op, log, ct, qp, cache, pr, cfg, cs, scheduled>>

----------------------------------------------------------------------------
(* Configuration (self.config['mcpServers']) *)

Names == {"s1", "s2", "s3"}      \* servers whose entry has command and args
NoCommand == "nocmd"             \* an entry lacking 'command' (or 'args')
Unknown == "ghost"               \* a name with no entry at all
AllNames == Names \cup {NoCommand, Unknown}

ConfigOf(n) ==
    IF n \in Names THEN "valid" ELSE IF n = NoCommand THEN "no_command" ELSE "absent"

Tools == {"t1", "t2"}
SessionToolSets == {{"t1"}, {"t2"}, {"t1", "t2"}}

\* sorted(): ascending string order of the names
NameRank(n) ==
    CASE n = "ghost" -> 0 [] n = "nocmd" -> 1 [] n = "s1" -> 2 [] n = "s2" -> 3 [] n = "s3" -> 4

RECURSIVE Sorted(_)
Sorted(S) ==
    IF S = {} THEN <<>>
    ELSE LET m == CHOOSE x \in S : \A y \in S : NameRank(x) <= NameRank(y)
         IN <<m>> \o Sorted(S \ {m})

----------------------------------------------------------------------------
(* Python dict helpers *)

Keys(d) == {d[i].name : i \in DOMAIN d}
KeySeq(d) == [i \in DOMAIN d |-> d[i].name]
Has(d, k) == k \in Keys(d)
Get(d, k) == d[CHOOSE i \in DOMAIN d : d[i].name = k]

\* d[k] = v : a new key goes last, an existing key keeps its place
DictSet(d, k, v) ==
    IF Has(d, k) THEN [i \in DOMAIN d |-> IF d[i].name = k THEN v ELSE d[i]]
    ELSE Append(d, v)

\* del d[k]
DictDel(d, k) == SelectSeq(d, LAMBDA e : e.name # k)

MapSet(f, k, v) == [x \in DOMAIN f \cup {k} |-> IF x = k THEN v ELSE f[x]]
MapDel(f, k) == [x \in DOMAIN f \ {k} |-> f[x]]
EmptyMap == [x \in {} |-> "none"]

----------------------------------------------------------------------------
(* The registry as one value, so that a handler can call another *)

Reg ==
    [servers |-> servers, connected |-> connected_servers,
     processes |-> server_processes, lhc |-> last_health_checks,
     task |-> health_check_task, log |-> <<>>]

SetReg(r) ==
    /\ servers' = r.servers
    /\ connected_servers' = r.connected
    /\ server_processes' = r.processes
    /\ last_health_checks' = r.lhc
    /\ health_check_task' = r.task
    /\ log' = r.log

\* what process.terminate() does: the process exits, ignores it, or the call raises;
\* what process.kill() does: succeeds or raises
TermOutcomes == {"exits", "lingers", "raises"}
KillOutcomes == {"ok", "raises"}
ProcEnv == [term : TermOutcomes, kill : KillOutcomes]

\* cleanup_server that leaves the name in connected_servers
cleanup_server_keep_connected(r, n, pe) ==
    LET r1 == [r EXCEPT !.servers = DictDel(@, n)]
    IN  IF n \in DOMAIN r1.processes
        THEN LET stillRunning == pe.term = "lingers" /\ r1.processes[n] = "running"
                 kill_needed == pe.term = "raises" \/ stillRunning
                 ev == <<<<"terminate", n, pe.term>>>>
                         \o (IF kill_needed THEN <<<<"kill", n, pe.kill>>>> ELSE <<>>)
             IN  [r1 EXCEPT !.processes = MapDel(@, n), !.log = @ \o ev]
        ELSE r1

\* cleanup_server with the del of the process entry inside the try block of terminate:
\* a terminate() that raises leaves the entry behind
cleanup_server_del_in_try(r, n, pe) ==
    LET r1 == [r EXCEPT !.connected = @ \ {n}, !.servers = DictDel(@, n)]
    IN  IF n \in DOMAIN r1.processes
        THEN LET ev == <<<<"terminate", n, pe.term>>>>
             IN  IF pe.term = "raises" THEN [r1 EXCEPT !.log = @ \o ev]
                 ELSE [r1 EXCEPT !.processes = MapDel(@, n), !.log = @ \o ev]
        ELSE r1

\* cleanup_server that kills whatever terminate() did
cleanup_server_always_kill(r, n, pe) ==
    LET r1 == [r EXCEPT !.connected = @ \ {n}, !.servers = DictDel(@, n)]
    IN  IF n \in DOMAIN r1.processes
        THEN [r1 EXCEPT !.processes = MapDel(@, n),
                        !.log = @ \o <<<<"terminate", n, pe.term>>, <<"kill", n, pe.kill>>>>]
        ELSE r1

\* ServerManager.cleanup_server
cleanup_server(r, n, pe) ==
    LET r1 == [r EXCEPT !.connected = @ \ {n}, !.servers = DictDel(@, n)]
    IN  IF n \in DOMAIN r1.processes
        THEN LET stillRunning == pe.term = "lingers" /\ r1.processes[n] = "running"
                 kill_needed == pe.term = "raises" \/ stillRunning
                 ev == <<<<"terminate", n, pe.term>>>>
                         \o (IF kill_needed THEN <<<<"kill", n, pe.kill>>>> ELSE <<>>)
             IN  [r1 EXCEPT !.processes = MapDel(@, n), !.log = @ \o ev]
        ELSE r1

\* ServerManager.stop_health_check_task
stop_health_check_task(r) == [r EXCEPT !.task = FALSE]

\* ServerManager.start_health_check_task
start_health_check_task(r) == [r EXCEPT !.task = TRUE]

RECURSIVE CleanupEach(_, _, _)
CleanupEach(r, todo, pe) ==
    IF todo = <<>> THEN r
    ELSE CleanupEach(cleanup_server(r, Head(todo), pe), Tail(todo), pe)

\* ServerManager.cleanup_all: list(self.connected_servers) is a snapshot; the order of
\* a set is arbitrary and the cleanups do not depend on one another
cleanup_all(r, pe) ==
    LET r1 == stop_health_check_task(r)
    IN  CleanupEach(r1, Sorted(r1.connected), pe)

\* what the liveness probe of one session does:
\*   init_ok    session.initialize() answers within 5 s
\*   list_ok    initialize fails, list_tools answers with at least one tool
\*   no_tools   initialize fails, list_tools answers with no tools (or an invalid response)
\*   probe_fail initialize fails, list_tools raises or times out
ProbeOutcomes == {"init_ok", "list_ok", "no_tools", "probe_fail"}

\* ServerManager._check_server_health; returns [reg, ret]
check_server_health(r, n, probe, pe) ==
    IF ~Has(r.servers, n) THEN [reg |-> r, ret |-> FALSE]
    ELSE LET r0 == [r EXCEPT !.log = Append(@, <<"check", n>>)]
         IN  IF n \in DOMAIN r0.processes /\ r0.processes[n] = "exited"
             THEN [reg |-> cleanup_server(r0, n, pe), ret |-> FALSE]
             ELSE IF probe \in {"init_ok", "list_ok"}
                  THEN [reg |-> [r0 EXCEPT !.lhc = MapSet(@, n, "fresh")], ret |-> TRUE]
                  ELSE [reg |-> r0, ret |-> FALSE]

\* the loop of check_servers_health over sorted(self.connected_servers);
\* returns [reg, ret]: ret is "ok" or <<"ConnectionError", name>>
RECURSIVE HealthLoop(_, _, _, _)
HealthLoop(r, todo, probes, pe) ==
    IF todo = <<>> THEN [reg |-> r, ret |-> "ok"]
    ELSE LET n == Head(todo)
         IN  IF n \notin DOMAIN r.lhc \/ r.lhc[n] = "stale"
             THEN LET h == check_server_health(r, n, probes[n], pe)
                  IN  IF ~h.ret THEN [reg |-> h.reg, ret |-> <<"ConnectionError", n>>]
                      ELSE HealthLoop(h.reg, Tail(todo), probes, pe)
             ELSE HealthLoop(r, Tail(todo), probes, pe)

Reverse(q) == [i \in DOMAIN q |-> q[Len(q) + 1 - i]]

\* the sweep without sorted(): the set is walked in another order
check_servers_health_unsorted(r, probes, pe) ==
    HealthLoop(r, Reverse(Sorted(r.connected)), probes, pe)

\* ServerManager.check_servers_health
check_servers_health(r, probes, pe) ==
    HealthLoop(r, Sorted(r.connected), probes, pe)

----------------------------------------------------------------------------
(* connect_to_server *)

max_retries == 3
retry_delay == 1
MaxDelay == 10
DefaultTimeout == 120
ShortTimeout == 1

Min(a, b) == IF a <= b THEN a ELSE b

\* the delay slept before the pass with this retry_count (> 0)
RetryDelay(retry_count) == Min(retry_delay * 2 ^ (retry_count - 1), MaxDelay)

\* what one connection attempt of a configured server runs into:
\*   spawn_error    stdio_client raises (nothing was stored yet)
\*   session_error  ClientSession raises, or initialize / list_tools fails, times out
\*                  or lists no tools (the process reference was stored already)
\*   proc_exited    the process is found dead right after the session was created
\*   ok             the handshake succeeds
AttemptOutcomes == {"ok", "spawn_error", "session_error", "proc_exited"}
TransientErrors == {"spawn_error", "session_error"}

ConstScript(o) == [i \in 1..max_retries |-> o]
\* fails on the first k attempts with f, succeeds afterwards
FlakyScript(f, k) == [i \in 1..max_retries |-> IF i <= k THEN f ELSE "ok"]
ConnScripts ==
    {ConstScript(o) : o \in AttemptOutcomes}
        \cup {FlakyScript(f, k) : f \in TransientErrors, k \in 1..(max_retries - 1)}

\* what terminate() and kill() do when a handler other than cleanup tears a process down
ProcEnvLite == {[term |-> "exits", kill |-> "ok"], [term |-> "raises", kill |-> "raises"]}

\* the inputs of one connect_to_server call: what each attempt runs into, whether the
\* stdio transport exposes a process attribute, the tools the server lists, the timeout
ConnEnvs(scripts, toolsets, timeouts) ==
    [script : scripts, hasProcess : BOOLEAN, tools : toolsets,
     timeout : timeouts, pe : {[term |-> "exits", kill |-> "ok"]}]

\* the inner try block of one pass (lines 270-398): every exit is a return
ConnectAttempt(r, n, env, outcome) ==
    LET r0 == [r EXCEPT !.log = Append(@, <<"spawn", n>>)]
    IN  IF outcome = "spawn_error" THEN [reg |-> r0, ret |-> FALSE]
        ELSE LET state == IF outcome = "proc_exited" THEN "exited" ELSE "running"
                 r1 == IF env.hasProcess
                       THEN [r0 EXCEPT !.processes = MapSet(@, n, state),
                                       !.log = Append(@, <<"store_process", n>>)]
                       ELSE r0
             IN  IF outcome = "session_error" THEN [reg |-> r1, ret |-> FALSE]
                 ELSE IF n \in DOMAIN r1.processes /\ r1.processes[n] = "exited"
                      THEN [reg |-> r1, ret |-> FALSE]
                 ELSE IF outcome = "proc_exited"
                      \* no process reference to poll: the dead server fails the handshake
                      THEN [reg |-> r1, ret |-> FALSE]
                 ELSE [reg |-> [r1 EXCEPT
                                  !.servers = DictSet(@, n, [name |-> n, tools |-> env.tools]),
                                  !.connected = @ \cup {n},
                                  !.lhc = MapSet(@, n, "fresh")],
                       ret |-> TRUE]

\* a loop condition that admits one pass too many
KeepTryingOffByOne(retry_count, elapsed, timeout) ==
    retry_count <= max_retries /\ elapsed < timeout

\* while retry_count < self.max_retries and (time.time() - start_time) < timeout
KeepTrying(retry_count, elapsed, timeout) ==
    retry_count < max_retries /\ elapsed < timeout

\* the while loop of connect_to_server; elapsed is time.time() - start_time
RECURSIVE ConnectLoop(_, _, _, _, _)
ConnectLoop(r, n, env, retry_count, elapsed) ==
    IF ~KeepTrying(retry_count, elapsed, env.timeout)
    THEN [reg |-> r, ret |-> FALSE]
    ELSE LET delay == IF retry_count > 0 THEN RetryDelay(retry_count) ELSE 0
             r1 == IF retry_count > 0
                   THEN [r EXCEPT !.log = Append(@, <<"sleep", delay>>)] ELSE r
             r2 == [r1 EXCEPT !.log = Append(@, <<"attempt", retry_count + 1>>)]
         IN  IF ConfigOf(n) = "absent" THEN [reg |-> r2, ret |-> FALSE]
             ELSE IF ConfigOf(n) = "no_command"
                  \* KeyError: the outer except counts the attempt and loops
                  THEN LET r3 == IF Has(r2.servers, n)
                                 THEN cleanup_server(r2, n, env.pe) ELSE r2
                       IN  ConnectLoop(r3, n, env, retry_count + 1, elapsed + delay)
                  ELSE ConnectAttempt(r2, n, env, env.script[retry_count + 1])

\* ServerManager.connect_to_server; returns [reg, ret]
connect_to_server(r, n, env) ==
    ConnectLoop([r EXCEPT !.log = Append(@, <<"connect", n, env.script>>)], n, env, 0, 0)

\* ServerManager.start_server; ret is "ok", <<"KeyError">> or <<"ConnectionError">>
start_server(r, n, env) ==
    IF ConfigOf(n) = "absent" THEN [reg |-> r, ret |-> <<"KeyError">>]
    ELSE LET c == connect_to_server(r, n, env)
         IN  IF ~c.ret THEN [reg |-> c.reg, ret |-> <<"ConnectionError">>]
             ELSE [reg |-> start_health_check_task(c.reg), ret |-> "ok"]

----------------------------------------------------------------------------
(* call_tool, one step per pass of its loops *)

ct_max_retries == 2
CallAttempts == 2

Idle ==
    [pc |-> "idle", tool |-> "", iter |-> <<>>, idx |-> 0, failed |-> {},
     retry_count |-> 0, pending |-> {}]

\* how a visited session behaves during one dispatch:
\*   ok                healthy, lists its tools, the call returns content
\*   probe_fail        the liveness probe fails
\*   list_fail         list_tools raises, times out or answers without a tool list
\*   call_falsy        every call returns an empty (falsy) response
\*   call_no_content   every call returns a response without text content
\*   call_timeout      every call times out
\*   call_timeout_once the first call times out, the second returns content
\*   call_error        the call raises an error that does not mention "connection"
\*   call_conn_error   the call raises a connection error
SessionBehaviours ==
    {"ok", "probe_fail", "list_fail", "call_falsy", "call_no_content", "call_timeout",
     "call_timeout_once", "call_error", "call_conn_error"}

\* session.call_tool round trips made by the attempt loop (range(2))
CallsMade(b) == IF b \in {"ok", "call_error", "call_conn_error"} THEN 1 ELSE CallAttempts

\* a scan in sorted-name order instead of registration order
ScanOrderSorted(d) == Sorted(Keys(d))

\* for server_name, server_info in self.servers.items()
ScanOrder(d) == KeySeq(d)

\* the body of the for loop of call_tool for session s (lines 515-605);
\* returns [reg, failed, done, ret]
Visit(r, s, tool, failed, b, pe) ==
    LET h == check_server_health(r, s, IF b = "probe_fail" THEN "probe_fail" ELSE "init_ok", pe)
        note(x, what) == [x EXCEPT !.log = Append(@, <<"visit", s, what>>)]
        server_info == Get(r.servers, s)
    IN  IF ~h.ret
        THEN [reg |-> note(h.reg, "unhealthy"), failed |-> failed \cup {s},
              done |-> FALSE, ret |-> <<>>]
        ELSE IF b = "list_fail"
        THEN [reg |-> note(h.reg, "list_fail"), failed |-> failed \cup {s},
              done |-> FALSE, ret |-> <<>>]
        ELSE IF tool \notin server_info.tools
        THEN [reg |-> note(h.reg, "no_tool"), failed |-> failed,
              done |-> FALSE, ret |-> <<>>]
        ELSE LET called == [h.reg EXCEPT !.log = Append(@, <<"call", s, CallsMade(b), b>>)]
             IN  IF b \in {"ok", "call_timeout_once"}
                 THEN [reg |-> note(called, "served"), failed |-> failed,
                       done |-> TRUE, ret |-> <<"success", s, "content">>]
                 ELSE IF b = "call_no_content"
                 THEN [reg |-> note(called, "served_empty"), failed |-> failed,
                       done |-> TRUE, ret |-> <<"success", s, "empty">>]
                 ELSE IF b = "call_conn_error"
                 THEN [reg |-> note(cleanup_server(called, s, pe), "call_failed"),
                       failed |-> failed \cup {s}, done |-> FALSE, ret |-> <<>>]
                 ELSE [reg |-> note(called, "call_failed"), failed |-> failed,
                       done |-> FALSE, ret |-> <<>>]

RegL == [Reg EXCEPT !.log = log]

Finish(ret) ==
    /\ ct' = Idle
    /\ op' = [op EXCEPT !.ret = ret]

\* whether this call repeats the previous one, follows a cleanup, or neither
After(name, arg) ==
    IF op.name = name /\ op.arg = arg THEN "same"
    ELSE IF op.name = "cleanup" THEN "cleanup" ELSE "other"

\* a reconnection round allowed once more than the code allows
MayReconnectInclusive(retry_count) == retry_count <= ct_max_retries

\* if retry_count < max_retries (line 608)
MayReconnect(retry_count) == retry_count < ct_max_retries

\* call_tool entered: the isinstance check and the first for loop set up
CallToolStart(tool, argsAreDict) ==
    /\ UNCHANGED <<qp, cache, pr, cfg, cs, scheduled>>
    /\ ct.pc = "idle"
    /\ UNCHANGED <<servers, connected_servers, server_processes, last_health_checks,
                   health_check_task>>
    /\ IF ~argsAreDict
       THEN /\ op' = [name |-> "call_tool", arg |-> tool, ret |-> <<"None">>, after |-> "other"]
            /\ log' = <<<<"bad_args">>>>
            /\ ct' = Idle
       ELSE /\ op' = [name |-> "call_tool", arg |-> tool, ret |-> <<"pending">>, after |-> "other"]
            /\ log' = <<>>
            /\ ct' = [Idle EXCEPT !.pc = "scan", !.tool = tool, !.iter = ScanOrder(servers)]

\* one next() of the for loop over self.servers.items(), and the loop body or,
\* at the end of the dict, the test that follows the loop (lines 607-621)
CallToolScan ==
    /\ UNCHANGED <<qp, cache, pr, cfg, cs, scheduled>>
    /\ ct.pc = "scan"
    /\ IF ScanOrder(servers) # ct.iter
       THEN \* RuntimeError: dictionary changed size during iteration
            /\ Finish(<<"raised", "RuntimeError">>)
            /\ UNCHANGED <<servers, connected_servers, server_processes,
                           last_health_checks, health_check_task, log>>
       ELSE IF ct.idx = Len(ct.iter)
       THEN /\ UNCHANGED <<servers, connected_servers, server_processes,
                           last_health_checks, health_check_task, log>>
            /\ IF Cardinality(ct.failed) = Len(servers) /\ MayReconnect(ct.retry_count)
               THEN /\ ct' = [ct EXCEPT !.pc = "reconnect", !.pending = ct.failed]
                    /\ UNCHANGED op
               ELSE Finish(<<"None">>)
       ELSE LET s == ct.iter[ct.idx + 1]
            IN  IF s \in ct.failed
                THEN /\ ct' = [ct EXCEPT !.idx = @ + 1]
                     /\ UNCHANGED <<servers, connected_servers, server_processes,
                                    last_health_checks, health_check_task, log, op>>
                ELSE \E b \in SessionBehaviours, pe \in ProcEnvLite :
                        LET v == Visit(RegL, s, ct.tool, ct.failed, b, pe)
                        IN  /\ SetReg(v.reg)
                            /\ IF v.done THEN Finish(v.ret)
                               ELSE /\ ct' = [ct EXCEPT !.idx = @ + 1, !.failed = v.failed]
                                    /\ UNCHANGED op

\* one pass of "for server_name in failed_servers" (lines 611-617); a successful
\* reconnection removes the name from the set being iterated
CallToolReconnect ==
    /\ UNCHANGED <<qp, cache, pr, cfg, cs, scheduled>>
    /\ ct.pc = "reconnect"
    /\ IF ct.pending = {}
       THEN /\ ct' = [ct EXCEPT !.pc = "scan", !.retry_count = @ + 1,
                                !.iter = ScanOrder(servers), !.idx = 0]
            /\ log' = Append(log, <<"reconnect_round", ct.retry_count + 1>>)
            /\ UNCHANGED <<servers, connected_servers, server_processes,
                           last_health_checks, health_check_task, op>>
       ELSE \E n \in ct.pending :
            \E env \in ConnEnvs({ConstScript(o) : o \in AttemptOutcomes},
                                SessionToolSets, {DefaultTimeout}) :
                LET c == connect_to_server(RegL, n, env)
                IN  /\ SetReg([c.reg EXCEPT !.log = log])
                    /\ IF c.ret
                       THEN \* RuntimeError: Set changed size during iteration
                            Finish(<<"raised", "RuntimeError">>)
                       ELSE /\ ct' = [ct EXCEPT !.pending = @ \ {n}]
                            /\ UNCHANGED op

----------------------------------------------------------------------------
(* Discovery: get_all_tools *)

\* what session.list_tools() does for get_all_tools: it answers, raises or times out,
\* or answers with nothing usable (a falsy response, or one without 'tools')
DiscoveryBehaviours == {"ok", "list_fail", "empty"}

\* tools_response.tools, in the order the session lists them
ToolOrder == <<"t1", "t2">>
ListedTools(ts) == SelectSeq(ToolOrder, LAMBDA t : t \in ts)

ToolEvents(s, q) == [i \in DOMAIN q |-> <<"tool", s, q[i]>>]

\* the loop body of get_all_tools for the session at position i (lines 447-494)
CollectFrom(r, i, b) ==
    LET e == r.servers[i]
        asked == [r EXCEPT !.log = Append(@, <<"list_tools", e.name, b>>)]
    IN  IF b = "ok"
        THEN [asked EXCEPT !.log = @ \o ToolEvents(e.name, ListedTools(e.tools))]
        ELSE asked

\* get_all_tools giving up at the first session that fails
RECURSIVE get_all_tools_until_failure(_, _, _)
get_all_tools_until_failure(r, i, beh) ==
    IF i > Len(r.servers) \/ beh[r.servers[i].name] # "ok" THEN r
    ELSE get_all_tools_until_failure(CollectFrom(r, i, beh[r.servers[i].name]), i + 1, beh)

\* ServerManager.get_all_tools, from the session at position i on; available_tools is
\* the sequence of "tool" events of the log
RECURSIVE get_all_tools(_, _, _)
get_all_tools(r, i, beh) ==
    IF i > Len(r.servers) THEN r
    ELSE get_all_tools(CollectFrom(r, i, beh[r.servers[i].name]), i + 1, beh)

GetAllTools(beh) ==
    /\ UNCHANGED <<qp, cache, pr, cfg, cs, scheduled>>
    /\ ct.pc = "idle"
    /\ SetReg(get_all_tools([Reg EXCEPT !.log = <<<<"get_all_tools", beh>>>>], 1, beh))
    /\ op' = [name |-> "get_all_tools", arg |-> "", ret |-> <<"list">>,
              after |-> After("get_all_tools", "")]
    /\ UNCHANGED ct

----------------------------------------------------------------------------
(* The other registry calls, each one whole *)

BoolRet(b) == IF b THEN <<"True">> ELSE <<"False">>

Connect(n, env) ==
    /\ UNCHANGED <<qp, cache, pr, cfg, cs, scheduled>>
    /\ ct.pc = "idle"
    /\ LET c == connect_to_server(Reg, n, env)
       IN  /\ SetReg(c.reg)
           /\ op' = [name |-> "connect", arg |-> n, ret |-> BoolRet(c.ret), after |-> "other"]
    /\ UNCHANGED ct

StartServer(n, env) ==
    /\ UNCHANGED <<qp, cache, pr, cfg, cs, scheduled>>
    /\ ct.pc = "idle"
    /\ LET c == start_server(Reg, n, env)
       IN  /\ SetReg(c.reg)
           /\ op' = [name |-> "start", arg |-> n, after |-> "other",
                     ret |-> IF c.ret = "ok" THEN <<"ok">> ELSE <<"raised">> \o c.ret]
    /\ UNCHANGED ct

Cleanup(n, pe) ==
    /\ UNCHANGED <<qp, cache, pr, cfg, cs, scheduled>>
    /\ ct.pc = "idle"
    /\ SetReg(cleanup_server(Reg, n, pe))
    /\ op' = [name |-> "cleanup", arg |-> n, ret |-> <<"None">>,
              after |-> After("cleanup", n)]
    /\ UNCHANGED ct

CleanupAll(pe) ==
    /\ UNCHANGED <<qp, cache, pr, cfg, cs, scheduled>>
    /\ ct.pc = "idle"
    /\ SetReg(cleanup_all(Reg, pe))
    /\ op' = [name |-> "cleanup_all", arg |-> "", ret |-> <<"None">>,
              after |-> After("cleanup_all", "")]
    /\ UNCHANGED ct

CheckHealth(n, probe, pe) ==
    /\ UNCHANGED <<qp, cache, pr, cfg, cs, scheduled>>
    /\ ct.pc = "idle"
    /\ LET h == check_server_health(Reg, n, probe, pe)
       IN  /\ SetReg(h.reg)
           /\ op' = [name |-> "health", arg |-> n, ret |-> BoolRet(h.ret), after |-> "other"]
    /\ UNCHANGED ct

CheckAll(probes, pe) ==
    /\ UNCHANGED <<qp, cache, pr, cfg, cs, scheduled>>
    /\ ct.pc = "idle"
    /\ LET h == check_servers_health(Reg, probes, pe)
       IN  /\ SetReg(h.reg)
           /\ op' = [name |-> "check_all", arg |-> "", after |-> "other",
                     ret |-> IF h.ret = "ok" THEN <<"None">> ELSE <<"raised">> \o h.ret]
    /\ UNCHANGED ct

\* the operating system: a tracked subprocess exits on its own
ProcessExit(n) ==
    /\ UNCHANGED <<qp, cache, pr, cfg, cs, scheduled>>
    /\ ct.pc = "idle"
    /\ n \in DOMAIN server_processes
    /\ server_processes[n] = "running"
    /\ server_processes' = [server_processes EXCEPT ![n] = "exited"]
    /\ op' = [name |-> "exit", arg |-> n, ret |-> <<>>, after |-> "other"]
    /\ log' = <<>>
    /\ UNCHANGED <<servers, connected_servers, last_health_checks, health_check_task, ct>>

\* the clock: a liveness timestamp becomes older than the check interval
TimePasses(n) ==
    /\ UNCHANGED <<qp, cache, pr, cfg, cs, scheduled>>
    /\ ct.pc = "idle"
    /\ n \in DOMAIN last_health_checks
    /\ last_health_checks[n] = "fresh"
    /\ last_health_checks' = [last_health_checks EXCEPT ![n] = "stale"]
    /\ op' = [name |-> "tick", arg |-> n, ret |-> <<>>, after |-> "other"]
    /\ log' = <<>>
    /\ UNCHANGED <<servers, connected_servers, server_processes, health_check_task, ct>>

RegInit ==
    /\ servers = <<>>
    /\ connected_servers = {}
    /\ server_processes = EmptyMap
    /\ last_health_checks = EmptyMap
    /\ health_check_task = FALSE
    /\ op = [name |-> "init", arg |-> "", ret |-> <<"None">>, after |-> "other"]
    /\ log = <<>>
    /\ ct = Idle
    /\ scheduled = EmptyMap

----------------------------------------------------------------------------
(* The query orchestrator: QueryProcessor.process_query *)

max_iterations == 10     \* self.max_iterations
Strategies == 3          \* len(retry_strategies)

\* What the model API, the registry and the tools do while one query is processed.
\*   turns         how many responses carry a tool-call block before the plain-text one
\*   shape         the content blocks of such a response
\*   outcome       what server_manager.call_tool does: a result, None, or an exception
\*   overflow      k > 0: on an affected iteration the first k model calls fail with the
\*                 "maximum of 4 blocks with cache_control" error
\*   overflow_on   the iterations affected: the first one, or every one
\*   retry_fault   how a failing fallback strategy fails
\*   api_error_at  the iteration whose model call fails with another error (0: none)
\*   health        whether check_servers_health raises ConnectionError
\*   metrics       whether response.usage carries the cache token counts
Shapes == {"tool", "text_tool", "tool_tool", "tool_bad_input"}
ToolOutcomes == {"result", "none", "raise", "mixed"}
TurnCounts == {0, 1, 2, max_iterations - 1, max_iterations, max_iterations + 1}

\* the roles of the non-system messages of the caller context (lines 118-140)
Histories == {<<>>, <<"user", "assistant">>}

\* one element of the messages list: its role, and the tool dispatch it reports
\* (0 for a message of the context and for the query)
Message(role, about) == [role |-> role, about |-> about]

Scripts ==
    {s \in [turns : TurnCounts, shape : Shapes, outcome : ToolOutcomes,
            overflow : 0..(Strategies + 1), overflow_on : {"first", "every"},
            retry_fault : {"overflow", "timeout", "other"},
            api_error_at : 0..2, health : {"ok", "raise"}, metrics : BOOLEAN,
            history : Histories] :
        /\ (s.overflow = 0 => s.overflow_on = "first")
        /\ (s.overflow <= 1 => s.retry_fault = "overflow")
        /\ (s.turns = 0 => s.shape = "tool" /\ s.outcome = "result")
        /\ (s.health = "raise" =>
               /\ s.turns = 0 /\ s.overflow = 0 /\ s.api_error_at = 0 /\ s.metrics
               /\ s.history = <<>>)}

QPIdle ==
    [pc |-> "idle", script |-> <<>>, iteration |-> 0, consumed |-> 0, calls |-> 0,
     failed_calls |-> 0, dispatches |-> 0, strategy |-> 0, sent |-> 0,
     current_text |-> <<>>, final_text |-> <<>>, messages |-> <<>>,
     request |-> [system |-> <<>>, tools |-> <<>>], attempts |-> <<>>, gathered |-> <<>>,
     ret |-> "pending", out |-> <<>>]

\* response.content of the k-th response the model returns
ResponseOf(script, k) ==
    IF k > script.turns THEN <<"text">>
    ELSE CASE script.shape = "tool" -> <<"tool_use">>
           [] script.shape = "text_tool" -> <<"text", "tool_use">>
           [] script.shape = "tool_tool" -> <<"tool_use", "tool_use">>
           [] script.shape = "tool_bad_input" -> <<"tool_use_bad_input">>

OverflowAt(script, iteration) ==
    script.overflow > 0 /\ (script.overflow_on = "every" \/ iteration = 1)

WhileTestInclusive(iteration) == iteration <= max_iterations
\* line 178: while iteration < self.max_iterations
WhileTest(iteration) == iteration < max_iterations

HasToolCallAlways(blocks) == TRUE
\* has_tool_call after the loop over response.content (lines 319, 335)
HasToolCall(blocks) ==
    \E i \in DOMAIN blocks : blocks[i] \in {"tool_use", "tool_use_bad_input"}

\* what call_tool does for the d-th dispatch of the query: it returns a result, returns
\* None or raises; "mixed" is a result for the odd dispatches and an error for the even
DispatchOutcome(script, d) ==
    IF script.outcome # "mixed" THEN script.outcome
    ELSE IF d % 2 = 1 THEN "result" ELSE "raise"

\* the turns a dispatch adds with messages.extend, in the opposite order
ToolTurnsUserFirst(d) == <<Message("user", d), Message("assistant", d)>>

\* a dispatch that records the call but not its result
ToolTurnsCallOnly(d) == <<Message("assistant", d)>>

\* messages.extend([...]) of lines 366-369
ToolTurns(d) == <<Message("assistant", d), Message("user", d)>>

\* one tool_use block (lines 334-373)
ToolUse(q) ==
    LET q1 == [q EXCEPT !.current_text = Append(@, "tool_call"), !.gathered = Append(@, "tool_call"), !.dispatches = @ + 1]
        o == DispatchOutcome(q.script, q1.dispatches)
    IN  CASE o = "none" ->
                [q1 EXCEPT !.current_text = Append(@, "error_not_found"), !.gathered = Append(@, "error_not_found")]
          [] o = "raise" ->
                [q1 EXCEPT !.current_text = Append(@, "error_exec"), !.gathered = Append(@, "error_exec")]
          [] o = "result" ->
                [q1 EXCEPT !.current_text = Append(@, "tool_result"), !.gathered = Append(@, "tool_result"),
                           !.messages = @ \o ToolTurns(q1.dispatches)]

\* for content in response.content (lines 328-373), from block i on; json.loads of an
\* input that is not a dict and not JSON raises outside the try of line 340
RECURSIVE ProcessContent(_, _, _)
ProcessContent(q, blocks, i) ==
    IF i > Len(blocks) THEN q
    ELSE CASE blocks[i] = "text" ->
                 ProcessContent([q EXCEPT !.current_text = Append(@, "thinking"), !.gathered = Append(@, "thinking")],
                                blocks, i + 1)
           [] blocks[i] = "tool_use" -> ProcessContent(ToolUse(q), blocks, i + 1)
           [] blocks[i] = "tool_use_bad_input" -> [q EXCEPT !.ret = "raised"]

\* a return that joins the fragments of the last iteration only
QPReturnLastOnly(q) ==
    LET text == IF q.iteration >= max_iterations
                THEN Append(q.current_text, "warning") ELSE q.current_text
    IN  [q EXCEPT !.pc = "done", !.ret = "text", !.out = text]

\* lines 379-382
QPReturn(q) ==
    LET text == IF q.iteration >= max_iterations
                THEN Append(q.final_text, "warning") ELSE q.final_text
    IN  [q EXCEPT !.pc = "done", !.ret = "text", !.final_text = text, !.out = text]

QPError(q, what) == [q EXCEPT !.pc = "done", !.ret = "error", !.out = <<what>>]
QPRaise(q, what) == [q EXCEPT !.pc = "done", !.ret = "raised", !.out = <<what>>]

\* lines 48-176: the payload is prepared, the registry is swept and asked for its tools.
\* A QueryProcessor keeps nothing from one query to the next (lines 53-57, 175-176 set
\* every local anew), so a behaviour follows one query.
ProcessQueryStart(script) ==
    /\ qp.pc = "idle"
    /\ UNCHANGED <<regVars, cache, pr, cfg, cs>>
    /\ qp' = IF script.health = "raise"
             THEN QPRaise([QPIdle EXCEPT !.script = script], "ConnectionError")
             ELSE [QPIdle EXCEPT !.pc = "loop", !.script = script, !.messages = [i \in DOMAIN script.history |->
                                              Message(script.history[i], 0)]
                                          \o <<Message("user", 0)>>]

\* lines 178-180, and 379-382 when the loop ends by its test
QPIterate ==
    /\ qp.pc = "loop"
    /\ UNCHANGED <<regVars, cache, pr, cfg, cs>>
    /\ qp' = IF WhileTest(qp.iteration)
             THEN [qp EXCEPT !.pc = "call", !.iteration = @ + 1, !.current_text = <<>>,
                             !.strategy = 0]
             ELSE QPReturn(qp)

\* lines 192-242, and 243-251, 313-316 when the call raises
QPModelCall ==
    /\ qp.pc = "call"
    /\ UNCHANGED <<regVars, cache, pr, cfg, cs>>
    /\ LET q == [qp EXCEPT !.calls = @ + 1, !.attempts = <<>>,
                            !.request = [system |-> cache.system, tools |-> cache.tools]]
       IN  qp' = IF q.script.api_error_at = q.iteration
                 THEN QPError([q EXCEPT !.failed_calls = @ + 1], "error_api")
                 ELSE IF OverflowAt(q.script, q.iteration)
                 THEN [q EXCEPT !.failed_calls = @ + 1, !.pc = "retry", !.strategy = 1]
                 ELSE [q EXCEPT !.pc = "respond", !.consumed = @ + 1, !.sent = 0,
                                !.current_text =
                                    IF q.script.metrics THEN <<"cache">> ELSE <<>>,
                                !.gathered =
                                    IF q.script.metrics THEN Append(@, "cache") ELSE @]

\* the fallback strategies (lines 252-270): cache_control is kept on the last two
\* system blocks; on the last system block and the first tool; nowhere
remove_cache_control(b) == [b EXCEPT !.marked = FALSE]

KeepLast(system, k) ==
    [i \in DOMAIN system |->
        IF i > Len(system) - k THEN system[i] ELSE remove_cache_control(system[i])]

\* [t[0]] + [...] of strategy 2 raises IndexError on an empty tool list
StrategyRaises(k, tools) == k = 2 /\ tools = <<>>

\* strategies of which the second leaves the tool list as it is
StrategyKeepAllTools(k, system, tools) ==
    CASE k = 1 -> [system |-> KeepLast(system, 2), tools |-> tools]
      [] k = 2 -> [system |-> KeepLast(system, 1), tools |-> tools]
      [] k = 3 -> [system |-> KeepLast(system, 0),
                   tools |-> [i \in DOMAIN tools |-> FALSE]]

Strategy(k, system, tools) ==
    CASE k = 1 -> [system |-> KeepLast(system, 2), tools |-> tools]
      [] k = 2 -> [system |-> KeepLast(system, 1),
                   tools |-> [i \in DOMAIN tools |-> i = 1 /\ tools[i]]]
      [] k = 3 -> [system |-> KeepLast(system, 0),
                   tools |-> [i \in DOMAIN tools |-> FALSE]]

RetryRequestOriginal(k, system, tools) == [system |-> system, tools |-> tools]
\* create_params.update(...) of lines 278-284: what the retried call is sent
RetryRequest(k, system, tools) == Strategy(k, system, tools)

\* how the call of strategy k ends
RetryOutcome(script, k) ==
    IF k >= script.overflow THEN "ok" ELSE script.retry_fault

\* one pass of "for strategy_num, strategy in enumerate(retry_strategies, 1)"
\* (lines 273-307), and lines 309-312 after the last one
QPRetry ==
    /\ qp.pc = "retry"
    /\ UNCHANGED <<regVars, cache, pr, cfg, cs>>
    /\ IF StrategyRaises(qp.strategy, cache.tools)
       THEN qp' = QPError([qp EXCEPT !.attempts = Append(@, <<qp.strategy, "raised">>)],
                          "error_retry")
       ELSE LET o == RetryOutcome(qp.script, qp.strategy)
                q == [qp EXCEPT !.calls = @ + 1,
                                !.attempts = Append(@, <<qp.strategy, o>>),
                                !.request = RetryRequest(qp.strategy, cache.system,
                                                         cache.tools)]
                f == [q EXCEPT !.failed_calls = @ + 1]
            IN  qp' = IF o = "ok"
                      THEN [q EXCEPT !.pc = "respond", !.consumed = @ + 1,
                                     !.sent = q.strategy]
                      ELSE IF o = "other" THEN QPError(f, "error_retry")
                      ELSE IF q.strategy = Strategies THEN QPError(f, "error_cache")
                      ELSE [f EXCEPT !.strategy = @ + 1]

\* lines 318-377: the response is processed, its tool calls dispatched
QPRespond ==
    /\ qp.pc = "respond"
    /\ UNCHANGED <<regVars, cache, pr, cfg, cs>>
    /\ LET blocks == ResponseOf(qp.script, qp.consumed)
           q1 == [qp EXCEPT !.current_text = Append(@, "iteration"), !.gathered = Append(@, "iteration")]
           q2 == ProcessContent(q1, blocks, 1)
           q3 == [q2 EXCEPT !.final_text = @ \o q2.current_text]
       IN  qp' = IF q2.ret = "raised" THEN QPRaise(q2, "JSONDecodeError")
                 ELSE IF HasToolCall(blocks) THEN [q3 EXCEPT !.pc = "loop"]
                 ELSE QPReturn(q3)

----------------------------------------------------------------------------
(* The cache markers of a request: process_query lines 55-116 and 153-172 *)

MAX_CACHE_BLOCKS == 4
LengthCap == 50           \* min(len(text) / 1000, 50)
KeywordBonus == 10
SystemThreshold == 20     \* priority > 20
ToolPriority == 100
ToolThreshold == 50       \* priority > 50

MaxSystem == 3            \* system messages in the caller context
MaxTools == 5             \* tools the registry offers

Min2(a, b) == IF a < b THEN a ELSE b

\* a content block: the length of its text in thousands of characters, the number of
\* important keywords in it, and whether it carries cache_control
TextKinds == {[len |-> 1, kw |-> 0], [len |-> 15, kw |-> 1], [len |-> 60, kw |-> 0]}
Block(t, m) == [len |-> t.len, kw |-> t.kw, marked |-> m]
Blocks == {Block(t, m) : t \in TextKinds, m \in BOOLEAN}

\* msg['content'] of a system message: a dict, a string or a list of blocks
Contents ==
    {[kind |-> "dict", blocks |-> <<b>>] : b \in Blocks}
    \cup {[kind |-> "str", blocks |-> <<Block(t, FALSE)>>] :
             t \in {[len |-> 1, kw |-> 0], [len |-> 60, kw |-> 0]}}
    \cup {[kind |-> "list", blocks |-> <<>>],
          [kind |-> "list", blocks |-> <<Block([len |-> 1, kw |-> 0], TRUE),
                                         Block([len |-> 60, kw |-> 0], FALSE)>>]}

Contexts == UNION {[1..n -> Contents] : n \in 0..MaxSystem}

\* get_cache_priority (lines 60-80)
get_cache_priority(content, is_tool) ==
    IF is_tool THEN ToolPriority
    ELSE Min2(content.len, LengthCap) + KeywordBonus * content.kw

\* lines 85-104: the blocks appended to system at once, and the prioritised ones
RECURSIVE FirstPass(_, _, _, _)
FirstPass(context, i, system, system_blocks) ==
    IF i > Len(context) THEN [system |-> system, system_blocks |-> system_blocks]
    ELSE LET content == context[i].blocks
         IN  IF content = <<>> THEN FirstPass(context, i + 1, system, system_blocks)
             ELSE LET content_block == content[Len(content)]
                  IN  FirstPass(context, i + 1,
                                system \o SubSeq(content, 1, Len(content) - 1),
                                Append(system_blocks,
                                       [block |-> content_block,
                                        priority |-> get_cache_priority(content_block,
                                                                         FALSE)]))

\* list.sort(key=priority, reverse=True): stable, highest first
RECURSIVE InsertByPriority(_, _)
InsertByPriority(sorted, e) ==
    IF sorted = <<>> THEN <<e>>
    ELSE IF Head(sorted).priority >= e.priority
         THEN <<Head(sorted)>> \o InsertByPriority(Tail(sorted), e)
         ELSE <<e>> \o sorted

RECURSIVE SortByPriority(_)
SortByPriority(q) ==
    IF q = <<>> THEN <<>>
    ELSE InsertByPriority(SortByPriority(SubSeq(q, 1, Len(q) - 1)), q[Len(q)])

\* lines 110-116
RECURSIVE Allocate(_, _, _, _, _)
Allocate(system_blocks, i, system, cache_slots, cache_blocks) ==
    IF i > Len(system_blocks) THEN [system |-> system, cache_blocks |-> cache_blocks]
    ELSE LET e == system_blocks[i]
         IN  IF cache_slots > 0 /\ e.priority > SystemThreshold
             THEN Allocate(system_blocks, i + 1,
                           Append(system, [e.block EXCEPT !.marked = TRUE]),
                           cache_slots - 1, cache_blocks + 1)
             ELSE Allocate(system_blocks, i + 1, Append(system, e.block),
                           cache_slots, cache_blocks)

\* lines 164-169, from tool i on
RECURSIVE MarkMoreTools(_, _, _)
MarkMoreTools(tools, i, cache_blocks) ==
    IF i > Len(tools) \/ cache_blocks >= MAX_CACHE_BLOCKS
    THEN [tools |-> tools, cache_blocks |-> cache_blocks]
    ELSE IF get_cache_priority(tools[i], TRUE) > ToolThreshold
         THEN MarkMoreTools([tools EXCEPT ![i] = TRUE], i + 1, cache_blocks + 1)
         ELSE MarkMoreTools(tools, i + 1, cache_blocks)

\* lines 153-169; a tool is modelled by whether it carries cache_control
MarkTools(tools, cache_blocks) ==
    IF tools = <<>> \/ cache_blocks >= MAX_CACHE_BLOCKS
    THEN [tools |-> tools, cache_blocks |-> cache_blocks]
    ELSE MarkMoreTools([tools EXCEPT ![1] = TRUE], 2, cache_blocks + 1)

CacheIdle ==
    [pc |-> "idle", context |-> <<>>, ntools |-> 0, system |-> <<>>, tools |-> <<>>,
     cache_blocks |-> 0]

\* lines 82-116
PrepareSystem ==
    /\ cache.pc = "input"
    /\ UNCHANGED <<regVars, qp, pr, cfg, cs>>
    /\ LET p == FirstPass(cache.context, 1, <<>>, <<>>)
           a == Allocate(SortByPriority(p.system_blocks), 1, p.system,
                         MAX_CACHE_BLOCKS - 1, 0)
       IN  cache' = [cache EXCEPT !.pc = "system", !.system = a.system,
                                  !.cache_blocks = a.cache_blocks]

\* lines 150-172; get_all_tools builds the tool dicts anew, without cache_control
PrepareTools ==
    /\ cache.pc = "system"
    /\ UNCHANGED <<regVars, qp, pr, cfg, cs>>
    /\ LET t == MarkTools([i \in 1..cache.ntools |-> FALSE], cache.cache_blocks)
       IN  cache' = [cache EXCEPT !.pc = "request", !.tools = t.tools,
                                  !.cache_blocks = t.cache_blocks]

\* the cache-marked blocks of the request of lines 183-190
MarkedBlocks ==
    Cardinality({i \in DOMAIN cache.system : cache.system[i].marked})
    + Cardinality({i \in DOMAIN cache.tools : cache.tools[i]})

----------------------------------------------------------------------------
(* ClaudeClient.process_response (src/mcp_client/processing/api/claude_client.py) *)

MaxBlocks == 3           \* content blocks of a response

ToolNames == {"a", "b"}
ArgValues == {1, 2}

\* content.input: a dict, a string holding the JSON text of a dict, or a string that
\* is not JSON; val tells the dicts apart
Inputs ==
    [kind : {"dict", "json"}, val : ArgValues] \cup {[kind |-> "bad", val |-> 1]}

ContentBlocks ==
    {[type |-> "text", name |-> "", input |-> [kind |-> "none", val |-> 1]]}
        \cup [type : {"tool_use"}, name : ToolNames, input : Inputs]

Responses == UNION {[1..n -> ContentBlocks] : n \in 0..MaxBlocks}

NoToolCall == <<>>       \* tool_call_info = None

PRIdle ==
    [pc |-> "idle", response |-> <<>>,
     ret |-> [display_text |-> <<>>, has_tool_call |-> FALSE,
              tool_call_info |-> NoToolCall, raised |-> FALSE]]

\* the loop over response.content from block i on (lines 83-93); the module does not
\* import json, so an input that is not a dict raises NameError out of the function
RECURSIVE process_response(_, _, _)
process_response(blocks, i, acc) ==
    IF i > Len(blocks) THEN acc
    ELSE LET content == blocks[i]
         IN  IF content.type = "text"
             THEN process_response(blocks, i + 1,
                      [acc EXCEPT !.display_text = Append(@, <<"thinking", i>>)])
             ELSE IF content.input.kind # "dict"
             THEN [acc EXCEPT !.has_tool_call = TRUE, !.raised = TRUE]
             ELSE process_response(blocks, i + 1,
                      [acc EXCEPT !.has_tool_call = TRUE,
                                  !.tool_call_info = <<content.name, content.input.val>>])

ProcessResponse ==
    /\ pr.pc = "input"
    /\ pr' = [pr EXCEPT !.pc = "done",
                        !.ret = process_response(pr.response, 1, PRIdle.ret)]
    /\ UNCHANGED <<regVars, qp, cache, cfg, cs>>

----------------------------------------------------------------------------
(* ConfigManager (src/mcp_client/config/config_manager.py) and the start of the *)
(* API server (src/mcp_client/server/api_server.py)                             *)

MaxEntries == 2          \* server entries of a configuration file

ConfigNames == <<"a", "b", "c">>

\* one value of mcpServers: what the validation looks at
ServerConfigs ==
    {e \in [is_dict : BOOLEAN, has_command : BOOLEAN,
            command : {"str", "empty_str", "not_str"},
            has_args : BOOLEAN, args : {"list", "not_list"},
            env : {"absent", "dict", "not_dict"}] :
        /\ (~e.is_dict => ~e.has_command /\ ~e.has_args /\ e.env = "absent")
        /\ (~e.has_command => e.command = "str")
        /\ (~e.has_args => e.args = "list")}

\* the file: unreadable, not JSON, or JSON whose mcpServers is absent, not a dict, or
\* a dict of server entries (in the order of the file)
ConfigFiles ==
    {[kind |-> k, servers |-> <<>>] : k \in {"missing", "not_json", "no_section", "section_not_dict"}}
        \cup {[kind |-> "ok", servers |-> es] :
                 es \in UNION {[1..n -> ServerConfigs] : n \in 0..MaxEntries}}

CfgIdle == [pc |-> "idle", file |-> [kind |-> "no_section", servers |-> <<>>],
            config |-> <<>>, names |-> <<>>]

\* _validate_server_config: TRUE when it returns, FALSE when it raises ValueError
validate_server_config(config) ==
    /\ config.has_command /\ config.has_args
    /\ config.command # "not_str"
    /\ config.args = "list"
    /\ config.env # "not_dict"

\* the test of one entry in the loop of _load_config (lines 51-58)
EntryAccepted(config) == config.is_dict /\ validate_server_config(config)

\* _load_config: [ok, servers]; every failure ends as ValueError (lines 61-70)
load_config(file) ==
    IF file.kind \in {"missing", "not_json", "section_not_dict"}
    THEN [ok |-> FALSE, servers |-> <<>>]
    ELSE IF file.kind = "no_section" THEN [ok |-> TRUE, servers |-> <<>>]
    ELSE IF \E i \in DOMAIN file.servers : ~EntryAccepted(file.servers[i])
    THEN [ok |-> FALSE, servers |-> <<>>]
    ELSE [ok |-> TRUE, servers |-> file.servers]

\* get_server_names: the keys of the loaded mcpServers
get_server_names(config) == [i \in DOMAIN config |-> ConfigNames[i]]

\* ConfigManager(): _load_config runs in __init__; a ValueError leaves no manager
LoadConfig ==
    /\ cfg.pc = "file"
    /\ LET c == load_config(cfg.file)
       IN  cfg' = IF c.ok THEN [cfg EXCEPT !.pc = "loaded", !.config = c.servers]
                  ELSE [cfg EXCEPT !.pc = "failed"]
    /\ UNCHANGED <<regVars, qp, cache, pr, cs>>

\* startup_event after ConfigManager(): the names it goes on to connect
GetServerNames ==
    /\ cfg.pc = "loaded"
    /\ cfg' = [cfg EXCEPT !.pc = "started", !.names = get_server_names(cfg.config)]
    /\ UNCHANGED <<regVars, qp, cache, pr, cs>>

----------------------------------------------------------------------------
(* CacheStrategy.apply_strategies (src/mcp_client/processing/cache/cache_strategy.py) *)

\* how api_call_func ends for one strategy: it returns, or raises the overflow error,
\* a timeout, or another error
CallOutcomes == {"ok", "overflow", "timeout", "other"}

NoResult ==
    [success |-> FALSE, response |-> "None", system |-> <<>>, tools |-> <<>>,
     raised |-> "", tried |-> <<>>]

CSIdle == [pc |-> "idle", system |-> <<>>, tools |-> <<>>,
           outcomes |-> [k \in 1..Strategies |-> "ok"], ret |-> NoResult]

\* the three strategies (lines 17-40) mark what the inline strategies of process_query
\* mark; strategy_minimal_cache raises IndexError on an empty tool list (line 31)

\* apply_strategies that goes on to the next strategy after any error
RECURSIVE apply_strategies_swallow(_, _, _, _, _)
apply_strategies_swallow(system, tools, outcomes, k, tried) ==
    IF k > Strategies
    THEN [NoResult EXCEPT !.system = system, !.tools = tools, !.tried = tried]
    ELSE IF StrategyRaises(k, tools) \/ outcomes[k] # "ok"
    THEN apply_strategies_swallow(system, tools, outcomes, k + 1, Append(tried, k))
    ELSE LET m == Strategy(k, system, tools)
         IN  [success |-> TRUE, response |-> "response", system |-> m.system,
              tools |-> m.tools, raised |-> "", tried |-> Append(tried, k)]

\* the for loop of apply_strategies from strategy k on (lines 66-83) and line 85
RECURSIVE apply_strategies(_, _, _, _, _)
apply_strategies(system, tools, outcomes, k, tried) ==
    IF k > Strategies
    THEN [NoResult EXCEPT !.system = system, !.tools = tools, !.tried = tried]
    ELSE IF StrategyRaises(k, tools)
    THEN [NoResult EXCEPT !.raised = "IndexError", !.tried = Append(tried, k)]
    ELSE IF outcomes[k] = "overflow"
    THEN apply_strategies(system, tools, outcomes, k + 1, Append(tried, k))
    ELSE IF outcomes[k] # "ok"
    THEN [NoResult EXCEPT !.raised = outcomes[k], !.tried = Append(tried, k)]
    ELSE LET m == Strategy(k, system, tools)
         IN  [success |-> TRUE, response |-> "response", system |-> m.system,
              tools |-> m.tools, raised |-> "", tried |-> Append(tried, k)]

ApplyStrategies ==
    /\ cs.pc = "input"
    /\ cs' = [cs EXCEPT !.pc = "done",
                        !.ret = apply_strategies(cs.system, cs.tools, cs.outcomes, 1, <<>>)]
    /\ UNCHANGED <<regVars, qp, cache, pr, cfg>>

----------------------------------------------------------------------------
(* Specifications *)

Init ==
    /\ RegInit /\ qp = QPIdle /\ cache = CacheIdle
    /\ pr = PRIdle /\ cfg = CfgIdle /\ cs = CSIdle

ResponseInit ==
    /\ RegInit /\ qp = QPIdle /\ cache = CacheIdle /\ cfg = CfgIdle /\ cs = CSIdle
    /\ \E r \in Responses : pr = [PRIdle EXCEPT !.pc = "input", !.response = r]

ResponseNext == ProcessResponse

ResponseSpec == ResponseInit /\ [][ResponseNext]_vars

ConfigInit ==
    /\ RegInit /\ qp = QPIdle /\ cache = CacheIdle /\ pr = PRIdle /\ cs = CSIdle
    /\ \E f \in ConfigFiles : cfg = [CfgIdle EXCEPT !.pc = "file", !.file = f]

ConfigNext ==
    \/ LoadConfig
    \/ GetServerNames

ConfigSpec == ConfigInit /\ [][ConfigNext]_vars

\* lines 82-172 as a whole: the payload of a query with this context and these tools
PreparedRequest(context, ntools) ==
    LET p == FirstPass(context, 1, <<>>, <<>>)
        a == Allocate(SortByPriority(p.system_blocks), 1, p.system,
                      MAX_CACHE_BLOCKS - 1, 0)
        t == MarkTools([i \in 1..ntools |-> FALSE], a.cache_blocks)
    IN  [pc |-> "request", context |-> context, ntools |-> ntools, system |-> a.system,
         tools |-> t.tools, cache_blocks |-> t.cache_blocks]

\* the payloads of the queries followed: no context and no tool, and a context of a
\* list with a marked first block and two long blocks, with four tools
LongBlock == Block([len |-> 60, kw |-> 0], FALSE)
QueryPayloads ==
    {PreparedRequest(<<>>, 0),
     PreparedRequest(<<[kind |-> "list",
                        blocks |-> <<Block([len |-> 1, kw |-> 0], TRUE), LongBlock>>],
                       [kind |-> "dict", blocks |-> <<LongBlock>>],
                       [kind |-> "dict", blocks |-> <<LongBlock>>]>>, MAX_CACHE_BLOCKS)}

QueryInit ==
    /\ RegInit /\ qp = QPIdle /\ pr = PRIdle /\ cfg = CfgIdle /\ cs = CSIdle
    /\ cache \in QueryPayloads

QueryNext ==
    \/ qp.pc = "idle" /\ \E script \in Scripts : ProcessQueryStart(script)
    \/ QPIterate
    \/ QPModelCall
    \/ QPRetry
    \/ QPRespond

QuerySpec == QueryInit /\ [][QueryNext]_vars

\* apply_strategies called on the payload of a query, for every way the three calls end
StrategyInit ==
    /\ RegInit /\ qp = QPIdle /\ cache = CacheIdle /\ pr = PRIdle /\ cfg = CfgIdle
    /\ \E p \in QueryPayloads, o \in [1..Strategies -> CallOutcomes] :
          cs = [CSIdle EXCEPT !.pc = "input", !.system = p.system, !.tools = p.tools,
                              !.outcomes = o]

StrategyNext == ApplyStrategies

StrategySpec == StrategyInit /\ [][StrategyNext]_vars

\* apply_strategies called on any system-block list and any non-empty tool list, with
\* the calls failing for overflow until strategy j
FallbackInit ==
    /\ RegInit /\ qp = QPIdle /\ cache = CacheIdle /\ pr = PRIdle /\ cfg = CfgIdle
    /\ \E n \in 0..MaxSystem, m \in 1..MaxTools, j \in 1..Strategies :
          \E system \in [1..n -> Blocks], tools \in [1..m -> BOOLEAN] :
              cs = [CSIdle EXCEPT !.pc = "input", !.system = system, !.tools = tools,
                                  !.outcomes = [k \in 1..Strategies |->
                                                   IF k < j THEN "overflow" ELSE "ok"]]

FallbackNext == ApplyStrategies

FallbackSpec == FallbackInit /\ [][FallbackNext]_vars

CacheInit ==
    /\ RegInit
    /\ qp = QPIdle
    /\ pr = PRIdle /\ cfg = CfgIdle /\ cs = CSIdle
    /\ \E context \in Contexts, ntools \in 0..MaxTools :
          cache = [CacheIdle EXCEPT !.pc = "input", !.context = context,
                                    !.ntools = ntools]

CacheNext ==
    \/ PrepareSystem
    \/ PrepareTools

CacheSpec == CacheInit /\ [][CacheNext]_vars

----------------------------------------------------------------------------
(* Lifecycle: connect, start, cleanup and single health checks of two servers *)

PairNames == {"s1", "s2"}

LifecycleNext ==
    \/ \E n \in PairNames : \E env \in ConnEnvs(ConnScripts, {{"t1"}}, {DefaultTimeout}) :
          Connect(n, env)
    \/ \E n \in {NoCommand, Unknown} :
          \E env \in ConnEnvs({ConstScript("ok")}, {{"t1"}}, {ShortTimeout, DefaultTimeout}) :
             Connect(n, env)
    \/ \E n \in PairNames \cup {Unknown} :
          \E env \in ConnEnvs({ConstScript(o) : o \in {"ok", "session_error"}}, {{"t1"}},
                              {DefaultTimeout}) :
             StartServer(n, env)
    \/ \E n \in PairNames \cup {Unknown} : \E pe \in ProcEnv : Cleanup(n, pe)
    \/ \E pe \in ProcEnv : CleanupAll(pe)
    \/ \E n \in PairNames \cup {Unknown} : \E probe \in ProbeOutcomes, pe \in ProcEnvLite :
          CheckHealth(n, probe, pe)
    \/ \E n \in PairNames : ProcessExit(n)
    \/ \E n \in PairNames : TimePasses(n)

LifecycleSpec == Init /\ [][LifecycleNext]_vars

----------------------------------------------------------------------------
(* Health sweep over three servers *)

HealthNext ==
    \/ \E n \in Names : \E env \in ConnEnvs({ConstScript("ok")}, {{"t1"}}, {DefaultTimeout}) :
          Connect(n, env)
    \/ \E probes \in [Names -> {"init_ok", "probe_fail"}], pe \in ProcEnvLite :
          CheckAll(probes, pe)
    \/ \E n \in Names : ProcessExit(n)
    \/ \E n \in Names : TimePasses(n)

HealthSpec == Init /\ [][HealthNext]_vars

----------------------------------------------------------------------------
(* Dispatch over two servers *)

DispatchNext ==
    \/ \E n \in PairNames :
          \E env \in ConnEnvs({ConstScript("ok")}, SessionToolSets, {DefaultTimeout}) :
             Connect(n, env)
    \/ \E n \in PairNames : ProcessExit(n)
    \/ \E tool \in Tools, argsAreDict \in BOOLEAN : CallToolStart(tool, argsAreDict)
    \/ CallToolScan
    \/ CallToolReconnect
    \/ \E beh \in [PairNames -> DiscoveryBehaviours] : GetAllTools(beh)

DispatchSpec == Init /\ [][DispatchNext]_vars

\* a dispatch that has started runs on: every await of call_tool is bounded by a
\* timeout (wait_for) or by the retry loop of connect_to_server
DispatchLiveSpec ==
    /\ Init /\ [][DispatchNext]_vars
    /\ WF_vars(CallToolScan)
    /\ WF_vars(CallToolReconnect)

----------------------------------------------------------------------------
(* A dispatch with other tasks running while its scan waits for a subprocess *)

MaxInterference == 1     \* registry changes by other tasks during one dispatch

OtherTaskEvents == Len(SelectSeq(log, LAMBDA e : e[1] = "other_task"))

\* the scan is suspended in the body of its loop (lines 521, 527, 545 await)
ScanSuspended ==
    /\ ct.pc = "scan"
    /\ ct.idx >= 1
    /\ OtherTaskEvents < MaxInterference

\* another task (the sweep of lines 69-72, a close callback, another query's dispatch)
\* runs cleanup_server(n) meanwhile
OtherTaskCleanup(n, pe) ==
    /\ UNCHANGED <<qp, cache, pr, cfg, cs, scheduled>>
    /\ ScanSuspended
    /\ LET c == cleanup_server(Reg, n, pe)
       IN  SetReg([c EXCEPT !.log = Append(log, <<"other_task", "cleanup", n>>)])
    /\ UNCHANGED <<op, ct>>

\* another task (another query's reconnection, a restart) runs connect_to_server(n)
OtherTaskConnect(n, env) ==
    /\ UNCHANGED <<qp, cache, pr, cfg, cs, scheduled>>
    /\ ScanSuspended
    /\ LET c == connect_to_server(Reg, n, env)
       IN  SetReg([c.reg EXCEPT !.log = Append(log, <<"other_task", "connect", n>>)])
    /\ UNCHANGED <<op, ct>>

ConcurrentNext ==
    \/ \E n \in PairNames :
          \E env \in ConnEnvs({ConstScript("ok")}, {{"t1"}}, {DefaultTimeout}) :
             Connect(n, env)
    \/ \E tool \in Tools : CallToolStart(tool, TRUE)
    \/ CallToolScan
    \/ CallToolReconnect
    \/ \E n \in PairNames, pe \in ProcEnvLite : OtherTaskCleanup(n, pe)
    \/ \E n \in PairNames :
          \E env \in ConnEnvs({ConstScript("ok")}, {{"t1"}}, {DefaultTimeout}) :
             OtherTaskConnect(n, env)

ConcurrentSpec == Init /\ [][ConcurrentNext]_vars

----------------------------------------------------------------------------
(* Cleanups scheduled with asyncio.create_task *)

\* on_close, or on_message with a close message, of the connection of session n
\* (lines 323-341), or the outer except of _check_server_health (lines 229-234):
\* create_task(self.cleanup_server(server_name)); the task runs later
ScheduleCleanup(n) ==
    /\ UNCHANGED <<qp, cache, pr, cfg, cs>>
    /\ ct.pc = "idle"
    /\ Has(servers, n)
    /\ n \notin DOMAIN scheduled
    /\ scheduled' = MapSet(scheduled, n, "pending")
    /\ op' = [name |-> "schedule", arg |-> n, ret |-> <<>>, after |-> "other"]
    /\ log' = <<>>
    /\ UNCHANGED <<servers, connected_servers, server_processes, last_health_checks,
                   health_check_task, ct>>

\* connect_to_server(n) by another task (a restart, the reconnection round of a
\* dispatch) completes while the cleanup task of n has not run yet
ConnectBeforeCleanup(n, env) ==
    /\ UNCHANGED <<qp, cache, pr, cfg, cs>>
    /\ ct.pc = "idle"
    /\ n \in DOMAIN scheduled
    /\ LET c == connect_to_server(Reg, n, env)
       IN  /\ SetReg(c.reg)
           /\ op' = [name |-> "connect", arg |-> n, ret |-> BoolRet(c.ret),
                     after |-> "other"]
           /\ scheduled' = IF c.ret THEN MapSet(scheduled, n, "reconnected")
                           ELSE scheduled
    /\ UNCHANGED ct

\* the event loop runs the scheduled task: cleanup_server(server_name)
RunScheduledCleanup(n, pe) ==
    /\ UNCHANGED <<qp, cache, pr, cfg, cs>>
    /\ ct.pc = "idle"
    /\ n \in DOMAIN scheduled
    /\ SetReg(cleanup_server(Reg, n, pe))
    /\ scheduled' = MapDel(scheduled, n)
    /\ op' = [name |-> "cleanup", arg |-> n, ret |-> <<"None">>, after |-> "other"]
    /\ UNCHANGED ct

ScheduledNext ==
    \/ \E n \in PairNames :
          \E env \in ConnEnvs({ConstScript("ok")}, {{"t1"}}, {DefaultTimeout}) :
             n \notin DOMAIN scheduled /\ Connect(n, env)
    \/ \E n \in PairNames : ScheduleCleanup(n)
    \/ \E n \in PairNames :
          \E env \in ConnEnvs({ConstScript(o) : o \in {"ok", "session_error"}}, {{"t1"}},
                              {DefaultTimeout}) :
             ConnectBeforeCleanup(n, env)
    \/ \E n \in PairNames, pe \in ProcEnv : RunScheduledCleanup(n, pe)
    \/ \E n \in PairNames : ProcessExit(n)

ScheduledSpec == Init /\ [][ScheduledNext]_vars

----------------------------------------------------------------------------
(* What the log of the last call says *)

Roles(m) == [i \in DOMAIN m |-> m[i].role]

EventsIn(l, kind) == SelectSeq(l, LAMBDA e : e[1] = kind)
\* the servers probed by _check_server_health, in order
CheckedIn(l) == [i \in DOMAIN EventsIn(l, "check") |-> EventsIn(l, "check")[i][2]]
\* the delays slept, in order
SleepsIn(l) == [i \in DOMAIN EventsIn(l, "sleep") |-> EventsIn(l, "sleep")[i][2]]
\* the passes of the retry loop
AttemptsIn(l) == Len(EventsIn(l, "attempt"))

RegistryMaps ==
    <<servers, connected_servers, server_processes, last_health_checks, health_check_task>>

NoEntry(n) ==
    /\ ~Has(servers, n)
    /\ n \notin connected_servers
    /\ n \notin DOMAIN server_processes

----------------------------------------------------------------------------
(* C2 *)

DispatchDone == op.name = "call_tool" /\ ct.pc = "idle"

\* the arguments were a dict and every session visited was healthy and answered
FaultFree ==
    /\ log # <<<<"bad_args">>>>
    /\ \A i \in DOMAIN log : log[i][1] = "visit" => log[i][3] \in {"no_tool", "served"}

\* position of the first session, in registration order, that lists the tool (0: none)
FirstListing(tool) ==
    LET idx == {i \in DOMAIN servers : tool \in servers[i].tools}
    IN  IF idx = {} THEN 0 ELSE CHOOSE i \in idx : \A j \in idx : i <= j

\* C2: a dispatch in which no session faults returns the result of the first session,
\* in registration order of the session map, whose tool listing contains the tool, and
\* None when no registered session lists it
C2_DispatchFirstMatch ==
    (DispatchDone /\ FaultFree) =>
        LET i == FirstListing(op.arg)
        IN  IF i = 0 THEN op.ret = <<"None">>
            ELSE op.ret = <<"success", servers[i].name, "content">>

\* two sessions list the tool, s2 was registered first and served the call
C2_Witness ==
    /\ DispatchDone /\ FaultFree
    /\ Len(servers) = 2
    /\ servers[1].name = "s2"
    /\ \A i \in DOMAIN servers : op.arg \in servers[i].tools
    /\ op.ret = <<"success", "s2", "content">>

----------------------------------------------------------------------------
(* C3 *)

\* C3: when _check_server_health returns false for a registered server, the server is
\* gone from the connected set, the session map and the subprocess map on return
C3_UnhealthyIsCleanedUp ==
    (op.name = "health" /\ op.ret = <<"False">> /\ log # <<>>) => NoEntry(op.arg)

----------------------------------------------------------------------------
(* C5 *)

\* C5: cleanup_server and cleanup_all return None whatever terminate and kill do; a
\* cleanup_server that follows a cleanup_server of the same name, a cleanup_server of a
\* name that has no entry anywhere, and a repeated cleanup_all change nothing; a
\* cleanup_all after a cleanup_server leaves the cleaned server without entries
C5_CleanupIdempotent ==
    [][/\ (op'.name \in {"cleanup", "cleanup_all"}) => op'.ret = <<"None">>
       /\ (op'.name \in {"cleanup", "cleanup_all"} /\ op'.after = "same")
             => RegistryMaps' = RegistryMaps
       /\ (op'.name = "cleanup" /\ op'.arg = Unknown) => RegistryMaps' = RegistryMaps
       /\ (op'.name = "cleanup_all" /\ op'.after = "cleanup")
             => /\ ~Has(servers', op.arg)
                /\ op.arg \notin connected_servers'
                /\ op.arg \notin DOMAIN server_processes'
      ]_regVars

\* cleanup_all right after a cleanup_server, with terminate and kill both raising for
\* the server that was still connected: nothing of it is left
C5_Witness ==
    /\ op.name = "cleanup_all" /\ op.after = "cleanup"
    /\ \E m \in PairNames :
          /\ \E i \in DOMAIN log : log[i] = <<"terminate", m, "raises">>
          /\ \E i \in DOMAIN log : log[i] = <<"kill", m, "raises">>
          /\ NoEntry(m)

----------------------------------------------------------------------------
(* C6 *)

\* C6: after cleanup_server(name) no entry for name remains in the session map, the
\* connected set, the subprocess map and the liveness-timestamp map
C6_CleanupLeavesNoEntry ==
    op.name = "cleanup" => (NoEntry(op.arg) /\ op.arg \notin DOMAIN last_health_checks)

----------------------------------------------------------------------------
(* C7 *)

\* C7: a connection that fails with a transient error on attempts 1 and 2 and succeeds
\* on attempt 3 makes connect_to_server return true after exactly 3 attempts, with
\* delays of 1 and then 2 seconds before the retries
C7_RetryThenSucceed ==
    (/\ op.name = "connect"
     /\ ConfigOf(op.arg) = "valid"
     /\ \E f \in TransientErrors : log[1][3] = FlakyScript(f, 2))
        => /\ op.ret = <<"True">>
           /\ AttemptsIn(log) = 3
           /\ SleepsIn(log) = <<1, 2>>

----------------------------------------------------------------------------
(* C8 *)

\* C8: connect_to_server makes at most max_retries passes and returns a boolean; it
\* returns false when the configuration of the server is missing or incomplete and when
\* every attempt it made failed
C8_ConnectFailsCleanly ==
    op.name = "connect" =>
        LET script == log[1][3]
            made == AttemptsIn(log)
        IN  /\ made <= max_retries
            /\ op.ret \in {<<"True">>, <<"False">>}
            /\ (ConfigOf(op.arg) # "valid" \/ \A k \in 1..made : script[k] # "ok")
                  => op.ret = <<"False">>

\* the entry without a command used up all three passes, sleeping 1 and 2 seconds
C8_Witness ==
    /\ op.name = "connect" /\ op.arg = NoCommand
    /\ AttemptsIn(log) = max_retries
    /\ SleepsIn(log) = <<1, 2>>
    /\ op.ret = <<"False">>

----------------------------------------------------------------------------
(* C10 *)

SweepRaised(o) == o.name = "check_all" /\ o.ret[1] = "raised"
NotAfter(S, n) == {c \in S : NameRank(c) <= NameRank(n)}

\* C10 as stated: the sweep raises for the first unhealthy server in name order, every
\* connected server sorting before it has been checked and none sorting after it
C10_SweepChecksAllBefore ==
    [][SweepRaised(op') =>
          CheckedIn(log') = Sorted(NotAfter(connected_servers, op'.ret[3]))]_regVars

\* the connected servers whose timestamp is missing or older than the interval
Due == {c \in connected_servers : c \notin DOMAIN last_health_checks
                                     \/ last_health_checks[c] = "stale"}

\* C10 amended: the sweep probes the due servers in ascending name order and raises a
\* ConnectionError naming the first unhealthy one; the due servers sorting before it
\* have been probed (and found healthy), no server sorting after it is probed
C10_SweepChecksDueInOrder ==
    [][op'.name = "check_all" =>
          IF op'.ret[1] = "raised"
          THEN /\ op'.ret[3] \in Due
               /\ CheckedIn(log') = Sorted(NotAfter(Due, op'.ret[3]))
               /\ \A c \in NotAfter(Due, op'.ret[3]) \ {op'.ret[3]} :
                     last_health_checks'[c] = "fresh"
          ELSE /\ CheckedIn(log') = Sorted(Due)
               /\ \A c \in Due : last_health_checks'[c] = "fresh"
      ]_regVars

\* three servers registered out of name order; s1 was probed, s2 failed, s3 was due
\* and has not been probed
C10_Witness ==
    /\ op.name = "check_all"
    /\ op.ret = <<"raised", "ConnectionError", "s2">>
    /\ CheckedIn(log) = <<"s1", "s2">>
    /\ servers[1].name = "s3"
    /\ "s3" \in connected_servers
    /\ last_health_checks["s3"] = "stale"

----------------------------------------------------------------------------
(* C1 *)

Elems(q) == {q[i] : i \in DOMAIN q}
QueryDone == qp.pc = "done"

\* process_query returned its transcript, and every response the model returned
\* carried a tool-call block
AlwaysToolCall ==
    /\ QueryDone /\ qp.ret = "text"
    /\ qp.consumed >= 1
    /\ qp.consumed <= qp.script.turns

----------------------------------------------------------------------------
(* C4 *)

\* C4: whatever the system blocks of the caller context (number, length, prior marking)
\* and the number of tools, the request carries at most MAX_CACHE_BLOCKS cache-marked
\* blocks across its system blocks and tool definitions
C4_AtMostFourMarked == cache.pc = "request" => MarkedBlocks <= MAX_CACHE_BLOCKS

----------------------------------------------------------------------------
(* C9 *)

\* one tool request, then plain text; the tool returns a result and no call fails
ScenarioA ==
    /\ QueryDone
    /\ qp.script.turns = 1
    /\ qp.script.shape \in {"tool", "text_tool"}
    /\ qp.script.outcome = "result"
    /\ qp.script.overflow = 0
    /\ qp.script.api_error_at = 0
    /\ qp.script.health = "ok"

Positions(q, x) == {i \in DOMAIN q : q[i] = x}

\* C9: in Scenario A process_query makes exactly 2 model calls and 1 tool dispatch, and
\* its transcript has the tool-call description, then the tool result, then the final
\* text, which ends it
C9_ScenarioA ==
    ScenarioA =>
        /\ qp.ret = "text"
        /\ qp.calls = 2
        /\ qp.dispatches = 1
        /\ \E i, j \in DOMAIN qp.out :
              /\ Positions(qp.out, "tool_call") = {i}
              /\ Positions(qp.out, "tool_result") = {j}
              /\ i < j
              /\ j < Len(qp.out)
              /\ qp.out[Len(qp.out)] = "thinking"
        /\ Roles(qp.messages) = qp.script.history \o <<"user", "assistant", "user">>

C9_Witness ==
    /\ ScenarioA
    /\ qp.script.shape = "tool"
    /\ qp.calls = 2
    /\ qp.dispatches = 1
    /\ qp.out = <<"cache", "iteration", "tool_call", "tool_result",
                  "cache", "iteration", "thinking">>

----------------------------------------------------------------------------
(* C11 *)

\* the model call of this iteration overflowed and the call of strategy 1 succeeded
RecoveredByFirst == qp.pc = "respond" /\ qp.sent = 1

ErrorFragments == {"error_not_found", "error_exec", "error_api", "error_retry",
                   "error_cache"}

\* C11: when a model call fails with the cache-ceiling error and the call of the first
\* fallback strategy succeeds, that call was sent the tools as they were and the system
\* blocks with cache_control kept on the last two only, its response is processed and
\* the query ends with its transcript and no error fragment
C11_FirstFallbackUsed ==
    /\ RecoveredByFirst =>
          /\ qp.attempts = <<<<1, "ok">>>>
          /\ qp.request.tools = cache.tools
          /\ DOMAIN qp.request.system = DOMAIN cache.system
          /\ \A i \in DOMAIN cache.system :
                qp.request.system[i] =
                    [cache.system[i] EXCEPT !.marked = @ /\ i >= Len(cache.system) - 1]
    /\ (/\ QueryDone
        /\ qp.script.overflow = 1 /\ qp.script.api_error_at = 0
        /\ qp.script.health = "ok"
        /\ qp.script.outcome = "result" /\ qp.script.shape # "tool_bad_input")
          => /\ qp.ret = "text"
             /\ Elems(qp.out) \cap ErrorFragments = {}
             /\ qp.consumed = qp.iteration

\* the payload carried more than four markers and the retried call fewer system markers
C11_Witness ==
    /\ RecoveredByFirst
    /\ MarkedBlocks > MAX_CACHE_BLOCKS
    /\ qp.request.system # cache.system
    /\ qp.request.tools = cache.tools

----------------------------------------------------------------------------
(* C12 *)

\* the overflow recovery of the current iteration is over
RecoveryOver == qp.attempts # <<>> /\ qp.pc \in {"respond", "done"}

\* C12: the recovery tries the strategies in the order 1, 2, 3 with one model call per
\* strategy, goes on to the next exactly when the call failed again with the overflow
\* error, and stops at the first success, for every system and tool list
C12_StrategiesInOrder ==
    RecoveryOver =>
        LET a == qp.attempts
            n == Len(a)
        IN  /\ \A i \in 1..n : a[i][1] = i
            /\ \A i \in 1..n : a[i][2] # "raised"
            /\ \A i \in 1..(n - 1) : a[i][2] = "overflow"
            /\ (a[n][2] = "overflow" => n = Strategies)

----------------------------------------------------------------------------
(* C13 *)

\* available_tools as (session, tool) pairs, and the sessions that answered
Collected == EventsIn(log, "tool")
Answered == {n \in Keys(servers) : log[1][2][n] = "ok"}
PositionOf(n) == CHOOSE i \in DOMAIN servers : servers[i].name = n

\* C13: get_all_tools returns a list whatever the sessions do: exactly the tools of the
\* sessions whose list_tools answered, each once, session by session in the order of
\* the session map
C13_ToolsOfRemainingSessions ==
    op.name = "get_all_tools" =>
        /\ op.ret = <<"list">>
        /\ \A i \in DOMAIN Collected :
              /\ Collected[i][2] \in Answered
              /\ Collected[i][3] \in Get(servers, Collected[i][2]).tools
        /\ \A n \in Answered : \A t \in Get(servers, n).tools :
              Cardinality({i \in DOMAIN Collected : Collected[i] = <<"tool", n, t>>}) = 1
        /\ \A i, j \in DOMAIN Collected :
              i < j => PositionOf(Collected[i][2]) <= PositionOf(Collected[j][2])

\* the first session fails, the second one answers and its tools are returned
C13_Witness ==
    /\ op.name = "get_all_tools"
    /\ Len(servers) = 2
    /\ log[1][2][servers[1].name] = "list_fail"
    /\ servers[2].name \in Answered
    /\ Len(Collected) = Cardinality(servers[2].tools)
    /\ Len(Collected) = 2

----------------------------------------------------------------------------
(* C14 *)

\* another task changed the registry while the scan of this dispatch was suspended
Interfered == \E i \in DOMAIN log : log[i][1] = "other_task"

\* C14: a dispatch whose scan is suspended while another task removes or adds a session,
\* and which itself removes none, ends without an error raised by the iteration
C14_ScanToleratesChange ==
    (DispatchDone /\ FaultFree /\ Interfered) => op.ret[1] # "raised"

----------------------------------------------------------------------------
(* C15 *)

\* the loop ran max_iterations iterations, each with a response, the last of them
\* with a tool call
CapReached ==
    /\ QueryDone
    /\ qp.iteration = max_iterations
    /\ qp.consumed = max_iterations
    /\ qp.script.turns >= max_iterations
    /\ qp.script.shape # "tool_bad_input"

\* C15: when the iteration cap is reached process_query returns its transcript, made
\* of every fragment gathered in all the iterations, in order, followed by the warning
C15_CapReturnsTranscript ==
    CapReached =>
        /\ qp.ret = "text"
        /\ qp.out = qp.gathered \o <<"warning">>

\* every tool call failed on the way to the cap
C15_Witness ==
    /\ CapReached
    /\ qp.script.outcome = "raise"
    /\ qp.out[Len(qp.out)] = "warning"
    /\ Cardinality(Positions(qp.out, "error_exec")) = max_iterations

----------------------------------------------------------------------------
(* C16 *)

\* the session.call_tool round trips made for the visit that log event i reports
RoundTrips(i) ==
    LET calls == {j \in 1..(i - 1) : log[j][1] = "call" /\ log[j][2] = log[i][2]}
    IN  IF calls = {} THEN 0
        ELSE log[CHOOSE j \in calls : \A k \in calls : k <= j][3]

\* C16: a tool dispatch that times out or raises a transport error is tried again,
\* with the same name and arguments, before the failure is reported
C16_FailedDispatchRetried ==
    DispatchDone =>
        \A i \in DOMAIN log :
            (log[i][1] = "visit" /\ log[i][3] = "call_failed") => RoundTrips(i) > 1

----------------------------------------------------------------------------
(* C17 *)

\* C17: a model call that fails for another reason than the overflow is tried again
\* before the query ends with the error
C17_ModelCallRetried ==
    (QueryDone /\ qp.out = <<"error_api">> /\ qp.script.overflow = 0) =>
        qp.failed_calls > 1

----------------------------------------------------------------------------
(* C18 *)

IsPrefix(a, b) == Len(a) <= Len(b) /\ a = SubSeq(b, 1, Len(a))

\* C18: a query cut short by a model-call timeout after a completed iteration returns
\* every fragment gathered in the completed iterations, and then the marker
C18_TimeoutKeepsTranscript ==
    (QueryDone /\ qp.ret = "error" /\ qp.script.api_error_at = qp.iteration
               /\ qp.iteration >= 2) =>
        IsPrefix(qp.gathered, qp.out)

----------------------------------------------------------------------------
(* C19 *)

\* C19: an unhealthy server found by the health check that precedes the query does
\* not make process_query raise
C19_UnhealthyServerContained ==
    (QueryDone /\ qp.script.health = "raise") => qp.ret # "raised"

----------------------------------------------------------------------------
(* C20 *)

\* C20: when cleanup_all has returned, the session map, the connected set and the
\* subprocess map are empty and the liveness-sweep task is cancelled
C20_CleanupAllEmpties ==
    op.name = "cleanup_all" =>
        /\ servers = <<>>
        /\ connected_servers = {}
        /\ DOMAIN server_processes = {}
        /\ ~health_check_task

----------------------------------------------------------------------------
(* C21 *)

\* C21: cleanup_server of a server with a tracked subprocess first calls terminate();
\* kill() follows exactly when terminate() raised or the process was still running
\* after the grace period; whatever terminate() and kill() did, the server is left
\* without an entry in the session map, the connected set and the subprocess map
C21_TerminateThenKill ==
    [][op'.name = "cleanup" =>
         /\ ~Has(servers', op'.arg)
         /\ op'.arg \notin connected_servers'
         /\ op'.arg \notin DOMAIN server_processes'
         /\ IF op'.arg \in DOMAIN server_processes
            THEN LET n == op'.arg
                     escalate == \/ log'[1][3] = "raises"
                                 \/ log'[1][3] = "lingers" /\ server_processes[n] = "running"
                 IN  /\ log'[1][1] = "terminate" /\ log'[1][2] = n
                     /\ IF escalate
                        THEN Len(log') = 2 /\ log'[2][1] = "kill" /\ log'[2][2] = n
                        ELSE Len(log') = 1
            ELSE log' = <<>>
      ]_regVars

\* terminate() and kill() both raised for a server that was connected, and nothing of
\* the server is left
C21_Witness ==
    /\ op.name = "cleanup"
    /\ log = <<<<"terminate", op.arg, "raises">>, <<"kill", op.arg, "raises">>>>
    /\ NoEntry(op.arg)

----------------------------------------------------------------------------
(* C22 *)

\* the last session visited by the dispatch found the tool and its call failed
LastVisitFailed ==
    /\ log # <<>>
    /\ log[Len(log)][1] = "visit"
    /\ log[Len(log)][3] = "call_failed"

\* C22: after a session whose call failed the scan goes on to the sessions that
\* remain: the dispatch ends with the answer of a later session or with None, never
\* with an error of the scan itself
C22_ScanGoesOnAfterError ==
    (DispatchDone /\ LastVisitFailed) => op.ret[1] # "raised"

----------------------------------------------------------------------------
(* C23 *)

\* the visits of session s in which the tool was called
CallsTo(s) == {i \in DOMAIN log : log[i][1] = "call" /\ log[i][2] = s}

\* the original statement: a dispatch makes at most one round of reconnection
C23_OneReconnectionRound == ct.retry_count <= 1

\* C23: a dispatch makes at most ct_max_retries rounds of reconnection and calls the
\* tool on a session in at most one visit, of at most CallAttempts round trips; and
\* every dispatch that has started ends
C23_DispatchBounded ==
    /\ [](/\ ct.retry_count <= ct_max_retries
          /\ op.name = "call_tool" =>
                \A s \in PairNames :
                    /\ Cardinality(CallsTo(s)) <= 1
                    /\ \A i \in CallsTo(s) : log[i][3] <= CallAttempts)
    /\ (ct.pc # "idle") ~> (ct.pc = "idle")

\* the dispatch gave up, with None, after the second round of reconnection
C23_Witness ==
    /\ DispatchDone
    /\ op.ret = <<"None">>
    /\ Cardinality({i \in DOMAIN log : log[i][1] = "reconnect_round"}) = ct_max_retries

----------------------------------------------------------------------------
(* C24 *)

\* the dispatch found the tool on a session and every attempt of the call timed out
\* or raised, and no other session was left to try
FoundButCallFailed ==
    /\ LastVisitFailed
    /\ Len(log) >= 2
    /\ log[Len(log) - 1][1] = "call"
    /\ log[Len(log) - 1][4] \in {"call_timeout", "call_error"}

\* C24: a dispatch whose tool was found but whose call failed does not end with the
\* result, None, of a dispatch whose tool no session exposes, which process_query
\* turns into the not-found fragment
C24_FailedCallNotReportedAsMissing ==
    (DispatchDone /\ FoundButCallFailed) => op.ret # <<"None">>

----------------------------------------------------------------------------
(* C25 *)

\* C25: a query dispatches at most one tool per model response: the dispatches made
\* so far never outnumber the responses received so far
C25_OneDispatchPerResponse == qp.dispatches <= qp.consumed

----------------------------------------------------------------------------
(* C26 *)

ToolUseBlocks(blocks) == {i \in DOMAIN blocks : blocks[i].type = "tool_use"}

FirstToolUse(blocks) ==
    CHOOSE i \in ToolUseBlocks(blocks) : \A j \in ToolUseBlocks(blocks) : i <= j

\* C26: process_response returns has_tool_call = true exactly when the response has a
\* tool_use block, and then the (tool_name, tool_args) it returns are those of the
\* first tool_use block of the response
C26_FirstToolCallSurfaced ==
    (pr.pc = "done" /\ ~pr.ret.raised) =>
        /\ pr.ret.has_tool_call <=> ToolUseBlocks(pr.response) # {}
        /\ pr.ret.has_tool_call =>
              LET first == pr.response[FirstToolUse(pr.response)]
              IN  pr.ret.tool_call_info = <<first.name, first.input.val>>

----------------------------------------------------------------------------
(* C29 *)

\* an entry that lacks command or args, or has one of them of the wrong type
Defective(config) ==
    \/ ~config.is_dict
    \/ ~config.has_command \/ ~config.has_args
    \/ config.command = "not_str" \/ config.args = "not_list"

\* C29: loading fails when a server entry lacks command or args or has them of the
\* wrong type, and every server of a configuration that loaded has a non-empty command
C29_LoadedCommandsNonEmpty ==
    /\ (cfg.pc \in {"loaded", "started"} /\ cfg.file.kind = "ok") =>
          \A i \in DOMAIN cfg.file.servers : ~Defective(cfg.file.servers[i])
    /\ cfg.pc \in {"loaded", "started"} =>
          \A i \in DOMAIN cfg.config :
              cfg.config[i].has_command /\ cfg.config[i].command = "str"

----------------------------------------------------------------------------
(* C30 *)

\* C30: an invalid entry is fatal for its server only: after the load every valid
\* entry of the file is part of the configuration, and the start goes on to connect it
C30_ValidServersStillLoaded ==
    (cfg.pc \in {"failed", "started"} /\ cfg.file.kind = "ok") =>
        \A i \in DOMAIN cfg.file.servers :
            EntryAccepted(cfg.file.servers[i]) =>
                /\ cfg.pc = "started"
                /\ \E j \in DOMAIN cfg.config :
                      cfg.names[j] = ConfigNames[i] /\ cfg.config[j] = cfg.file.servers[i]

----------------------------------------------------------------------------
(* C27 *)

RecoveryFailed == cs.pc = "done" /\ ~cs.ret.success /\ cs.ret.raised = ""

\* the original statement: the recovery reports success = false only when every
\* strategy failed for a reason other than the overflow
C27_FailureOnlyForOtherReasons ==
    RecoveryFailed => \A k \in 1..Strategies : cs.outcomes[k] \in {"timeout", "other"}

\* C27: the recovery reports success = false only when every strategy failed with a
\* recurrence of the overflow error; a recurrence on one strategy only causes the next
\* strategy to be tried; a failure for another reason ends the recovery with that error
C27_FailureOnlyAfterAllOverflow ==
    cs.pc = "done" =>
        LET tried == cs.ret.tried
            n == Len(tried)
        IN  /\ RecoveryFailed =>
                  /\ tried = [k \in 1..Strategies |-> k]
                  /\ \A k \in 1..Strategies : cs.outcomes[k] = "overflow"
            /\ \A i \in 1..n : tried[i] = i
            /\ \A i \in 1..(n - 1) :
                  ~StrategyRaises(i, cs.tools) /\ cs.outcomes[i] = "overflow"
            /\ (n < Strategies /\ ~StrategyRaises(n, cs.tools))
                  => cs.outcomes[n] # "overflow"
            /\ cs.ret.raised # "" <=>
                  \/ StrategyRaises(n, cs.tools)
                  \/ cs.outcomes[n] \in {"timeout", "other"}

\* the overflow recurred on all three strategies and the recovery reported failure
C27_Witness ==
    /\ RecoveryFailed
    /\ cs.ret.tried = <<1, 2, 3>>
    /\ cs.tools # <<>>
    /\ \A k \in 1..Strategies : cs.outcomes[k] = "overflow"

----------------------------------------------------------------------------
(* C28 *)

\* C28: when every model response carries a tool-call block and no model call fails,
\* process_query has made exactly max_iterations + 1 model calls when it returns
C28_ExactlyElevenCalls ==
    (AlwaysToolCall /\ qp.failed_calls = 0) => qp.calls = max_iterations + 1

----------------------------------------------------------------------------
(* C31 *)

\* a model call is about to be issued: the first call of an iteration, or the call
\* of a fallback strategy
AtModelCall == qp.pc \in {"call", "retry"}

\* the most recent dispatch that returned a result (0: none yet)
LastResolved ==
    LET ok == {d \in 1..qp.dispatches : DispatchOutcome(qp.script, d) = "result"}
    IN  IF ok = {} THEN 0 ELSE CHOOSE d \in ok : \A e \in ok : e <= d

----------------------------------------------------------------------------
(* C32 *)

\* C32: when connect_to_server of a server that was not registered returns false,
\* nothing of the server is left in the session map, the connected set and the
\* subprocess map
C32_FailedConnectTornDown ==
    [][(op'.name = "connect" /\ op'.ret = <<"False">> /\ NoEntry(op'.arg)) =>
         /\ ~Has(servers', op'.arg)
         /\ op'.arg \notin connected_servers'
         /\ op'.arg \notin DOMAIN server_processes'
      ]_regVars

----------------------------------------------------------------------------
\* the dispatches of the query that returned a result
Succeeded == {d \in 1..qp.dispatches : DispatchOutcome(qp.script, d) = "result"}

\* the turns appended after the caller context and the query
AppendedTurns ==
    SubSeq(qp.messages, Len(qp.script.history) + 2, Len(qp.messages))

\* C33: each dispatch that returned a result has appended exactly two turns, an assistant
\* turn followed by a user turn, the pairs stand in the order the calls were resolved, and
\* in the transcript every tool call is followed by its own result or error before
\* anything else is recorded
C33_PairsInResolutionOrder ==
    qp.messages # <<>> =>
        /\ Len(AppendedTurns) = 2 * Cardinality(Succeeded)
        /\ \A j \in 1..Cardinality(Succeeded) :
              /\ AppendedTurns[2 * j - 1].role = "assistant"
              /\ AppendedTurns[2 * j].role = "user"
              /\ AppendedTurns[2 * j - 1].about = AppendedTurns[2 * j].about
              /\ AppendedTurns[2 * j].about \in Succeeded
              /\ j > 1 => AppendedTurns[2 * j - 2].about < AppendedTurns[2 * j].about
        /\ \A i \in DOMAIN qp.gathered :
              qp.gathered[i] = "tool_call" =>
                  /\ i < Len(qp.gathered)
                  /\ qp.gathered[i + 1] \in {"tool_result", "error_exec", "error_not_found"}

\* two dispatches of one response succeeded and a failed one lies between two successes
C33_Witness ==
    /\ qp.pc = "done" /\ qp.ret = "text"
    /\ qp.script.shape = "tool_tool" /\ qp.script.outcome = "mixed"
    /\ Cardinality(Succeeded) >= 2
    /\ Len(AppendedTurns) = 2 * Cardinality(Succeeded)
    /\ AppendedTurns[3].about = 3

----------------------------------------------------------------------------
\* the number of blocks of a request that carry cache_control
RECURSIVE CountMarked(_, _)
CountMarked(flags, i) ==
    IF i > Len(flags) THEN 0
    ELSE (IF flags[i] THEN 1 ELSE 0) + CountMarked(flags, i + 1)

Marks(system, tools) ==
    CountMarked([i \in DOMAIN system |-> system[i].marked], 1) + CountMarked(tools, 1)

\* the strategy whose call succeeded
Applied == cs.ret.tried[Len(cs.ret.tried)]

\* what a successful strategy has left of the request it was given
MarkersShrink ==
    (cs.pc = "done" /\ cs.ret.success /\ cs.tools # <<>>) =>
        LET left == Marks(cs.ret.system, cs.ret.tools)
            before == IF Applied = 1 THEN [system |-> cs.system, tools |-> cs.tools]
                      ELSE Strategy(Applied - 1, cs.system, cs.tools)
        IN  /\ left <= Marks(cs.system, cs.tools)
            /\ left <= Marks(before.system, before.tools)
            /\ Applied = 2 => left <= 2
            /\ Applied = 3 => left = 0
            /\ Len(cs.ret.system) = Len(cs.system) /\ Len(cs.ret.tools) = Len(cs.tools)
            /\ \A i \in DOMAIN cs.system :
                  /\ cs.ret.system[i].marked => cs.system[i].marked
                  /\ cs.ret.system[i].len = cs.system[i].len
                  /\ cs.ret.system[i].kw = cs.system[i].kw
            /\ \A i \in DOMAIN cs.tools : cs.ret.tools[i] => cs.tools[i]

\* C34: for every system-block list and non-empty tool list, the blocks a strategy leaves
\* marked are no more than the original ones and no more than those of the strategy
\* before it, at most 2 after strategy 2 and none after strategy 3; a strategy marks no
\* block that was unmarked, changes no other field, and the lists handed to
\* apply_strategies are the same after the call
C34_MarkersOnlyShrink ==
    /\ []MarkersShrink
    /\ [][cs.pc = "input" => (cs'.system = cs.system /\ cs'.tools = cs.tools)]_vars

\* strategy 2 was applied to a request with more than four marked blocks and took
\* markers from system blocks and from tools
C34_Witness ==
    /\ cs.pc = "done" /\ cs.ret.success /\ Applied = 2
    /\ Marks(cs.system, cs.tools) > MAX_CACHE_BLOCKS
    /\ Marks(cs.ret.system, cs.ret.tools) = 2
    /\ CountMarked(cs.tools, 1) >= 2
    /\ Len(cs.system) >= 2 /\ cs.system[1].marked

----------------------------------------------------------------------------
\* C35: after every registry operation, and while a dispatch is suspended, the connected
\* set is the key set of the session map
C35_ConnectedIsSessionKeys == connected_servers = Keys(servers)

\* a cleanup has removed one of two connected servers
C35_Witness ==
    /\ op.name = "cleanup"
    /\ \E e \in DOMAIN log : log[e][1] = "terminate" /\ log[e][2] = op.arg
    /\ op.arg \notin connected_servers
    /\ connected_servers # {}
    /\ connected_servers = Keys(servers)

----------------------------------------------------------------------------
\* C36: the warning is in the transcript only if the last response still carried a tool
\* call; an answer without tool call on the max_iterations-th iteration has no warning
C36_WarningOnlyWhenCapped ==
    (qp.pc = "done" /\ qp.ret = "text" /\ \E i \in DOMAIN qp.out : qp.out[i] = "warning") =>
        HasToolCall(ResponseOf(qp.script, qp.consumed))

----------------------------------------------------------------------------
\* C37: when the fallback strategy qp.sent succeeded in the iteration before, the model
\* call that opens the next iteration is sent with the blocks of that strategy
C37_ReducedSetKept ==
    [][(qp.pc = "call" /\ qp.sent > 0 /\ qp'.calls = qp.calls + 1) =>
           qp'.request = Strategy(qp.sent, cache.system, cache.tools)]_vars

----------------------------------------------------------------------------
(* Overflow recovery against a provider that counts the marked blocks *)

MaxMessageMarks == 5     \* blocks with cache_control in the non-system messages

\* the provider rejects a request that carries more than four marked blocks, counting
\* the system blocks, the tool definitions and the messages; the strategies are handed
\* system and tools only, the messages are sent as they are
Rejects(system, tools, message_marks) ==
    Marks(system, tools) + message_marks > MAX_CACHE_BLOCKS

\* how the call of strategy k ends at this provider
ProviderOutcomes(system, tools, message_marks) ==
    [k \in 1..Strategies |->
        IF StrategyRaises(k, tools) THEN "other"
        ELSE LET m == Strategy(k, system, tools)
             IN  IF Rejects(m.system, m.tools, message_marks) THEN "overflow" ELSE "ok"]

\* the payload of a query whose first model call the provider has rejected
ProviderInit ==
    /\ RegInit /\ qp = QPIdle /\ pr = PRIdle /\ cfg = CfgIdle
    /\ \E context \in Contexts, ntools \in 0..MaxTools, mm \in 0..MaxMessageMarks :
          LET p == PreparedRequest(context, ntools)
          IN  /\ Rejects(p.system, p.tools, mm)
              /\ cache = p
              /\ cs = [pc |-> "input", system |-> p.system, tools |-> p.tools,
                       outcomes |-> ProviderOutcomes(p.system, p.tools, mm),
                       ret |-> NoResult, message_marks |-> mm]

ProviderNext == ApplyStrategies

ProviderSpec == ProviderInit /\ [][ProviderNext]_vars

\* C38: against a provider that rejects exactly the requests with more than 4 marked
\* blocks, overflow recovery ends with a successful model call, for every caller context
\* and tool list
C38_RecoveryAlwaysSucceeds == cs.pc = "done" => cs.ret.success

----------------------------------------------------------------------------
\* C39: a scheduled cleanup of a server that was connected again before the task ran
\* leaves the new session and its subprocess registered
C39_ScheduledCleanupSparesNewSession ==
    [][\A n \in PairNames :
          (/\ n \in DOMAIN scheduled /\ scheduled[n] = "reconnected"
           /\ n \notin DOMAIN scheduled') =>
              /\ Has(servers', n)
              /\ n \in connected_servers'
              /\ (n \in DOMAIN server_processes => n \in DOMAIN server_processes')
      ]_vars

----------------------------------------------------------------------------
\* C40: a call that stores a new subprocess handle under a name whose registered
\* subprocess is running has requested terminate or kill on that subprocess first
C40_LiveHandleNotOverwritten ==
    [][\A n \in PairNames :
          \A e \in DOMAIN log' :
              (/\ n \in DOMAIN server_processes /\ server_processes[n] = "running"
               /\ log'[e][1] = "store_process" /\ log'[e][2] = n) =>
                  \E t \in 1..(e - 1) :
                      log'[t][1] \in {"terminate", "kill"} /\ log'[t][2] = n
      ]_regVars

====
